---------------------------- MODULE Spec2Model ----------------------------
(***************************************************************************)
(* Model of the discounted-cash-flow engine of                             *)
(* "commercial-real-estate-appraisal-model (2)/dcf.ts":                    *)
(*   solveIRR, projectSingleLeaseCashFlows,                                *)
(*   calculateAnnualOperatingExpenses, calculateTerminalValue and          *)
(*   buildFullDCFCashFlows.                                                *)
(*                                                                         *)
(* JavaScript numbers are modelled as exact rationals extended with the    *)
(* three IEEE-754 specials: [n, d] with d > 0 is the rational n/d in       *)
(* lowest terms, [1,0] is +Infinity, [-1,0] is -Infinity and [0,0] is NaN. *)
(* Rounding of finite results is not modelled.                             *)
(***************************************************************************)
EXTENDS Integers, Sequences, FiniteSets, TLC

VARIABLES
    inputs,              \* the AppraisalInputs handed to buildFullDCFCashFlows
    rng,                 \* what Math.random() would return (x100) during this run
    pc,                  \* position inside buildFullDCFCashFlows
    run,                 \* 1 = first invocation on these inputs, 2 = second
    prevResult,          \* the value returned by the first invocation
    allLeaseProjections, \* dcf.ts:285
    i,                   \* loop index of dcf.ts:296
    cashFlows,           \* dcf.ts:283
    cumulativeVacantSFFromPriorYearNonRenewals, \* dcf.ts:291
    sfLeasedInPriorYearsAndStillActive,         \* dcf.ts:292
    tv,                  \* dcf.ts:500
    dcfValue,            \* dcf.ts:520
    result,              \* the value returned
    steps,               \* history: the steps executed by this invocation
    irrCashFlows,        \* solveIRR: argument cashFlows
    irrGuess,            \* solveIRR: argument guess
    rate,                \* solveIRR: dcf.ts:24
    irrIter,             \* solveIRR: loop counter i of dcf.ts:25
    irrPc,               \* solveIRR: position
    irrReturn,           \* solveIRR: returned value
    irrSawZeroDerivative,\* history: an iteration computed dnpv_dr === 0
    irrUpdates,          \* history: number of executions of dcf.ts:43
    call,                \* arguments of a function called on its own
    ret                  \* its returned value

vars == <<inputs, rng, pc, run, prevResult, allLeaseProjections, i, cashFlows,
          cumulativeVacantSFFromPriorYearNonRenewals,
          sfLeasedInPriorYearsAndStillActive, tv, dcfValue, result, steps,
          irrCashFlows, irrGuess, rate, irrIter, irrPc, irrReturn,
          irrSawZeroDerivative, irrUpdates, call, ret>>

engineVars == <<inputs, rng, pc, run, prevResult, allLeaseProjections, i, cashFlows,
          cumulativeVacantSFFromPriorYearNonRenewals,
          sfLeasedInPriorYearsAndStillActive, tv, dcfValue, result, steps>>

irrVars == <<irrCashFlows, irrGuess, rate, irrIter, irrPc, irrReturn,
             irrSawZeroDerivative, irrUpdates>>

fnVars == <<call, ret>>

\* null / undefined in a slot that otherwise holds an object or a number record
Null == [null |-> TRUE]

\* an optional input (x?: number, x?: boolean): {} when absent, {v} when v
Absent == {}

Present(v) == {v}

\* x ?? fallback
Coalesce(x, fallback) == IF x = Absent THEN fallback ELSE CHOOSE v \in x : TRUE

-----------------------------------------------------------------------------
(* JavaScript number arithmetic                                            *)

Abs(x) == IF x < 0 THEN -x ELSE x

Sign(x) == IF x < 0 THEN -1 ELSE IF x > 0 THEN 1 ELSE 0

RECURSIVE GCD(_, _)
GCD(a, b) == IF b = 0 THEN a ELSE GCD(b, a % b)

\* the number n/d, d >= 0, in lowest terms
Norm(n, d) ==
    IF d = 0 THEN [n |-> Sign(n), d |-> 0]
    ELSE LET g == GCD(Abs(n), d) IN [n |-> n \div g, d |-> d \div g]

R(k) == [n |-> k, d |-> 1]

Zero == R(0)

One == R(1)

NaN == [n |-> 0, d |-> 0]

PosInf == [n |-> 1, d |-> 0]

NegInf == [n |-> -1, d |-> 0]

IsNaN(a) == a.d = 0 /\ a.n = 0

IsFinite(a) == a.d > 0

Neg(a) == [n |-> -a.n, d |-> a.d]

\* a + b
Add(a, b) ==
    IF IsNaN(a) \/ IsNaN(b) THEN NaN
    ELSE IF a.d = 0 /\ b.d = 0 THEN (IF a.n = b.n THEN a ELSE NaN)
    ELSE IF a.d = 0 THEN a
    ELSE IF b.d = 0 THEN b
    ELSE LET g == GCD(a.d, b.d)
         IN  Norm(a.n * (b.d \div g) + b.n * (a.d \div g), (a.d \div g) * b.d)

\* a - b
Sub(a, b) == Add(a, Neg(b))

\* a * b
Mul(a, b) ==
    IF IsNaN(a) \/ IsNaN(b) THEN NaN
    ELSE IF a.d = 0 \/ b.d = 0 THEN Norm(Sign(a.n) * Sign(b.n), 0)
    ELSE LET g1 == GCD(Abs(a.n), b.d)
             g2 == GCD(Abs(b.n), a.d)
         IN  Norm((a.n \div g1) * (b.n \div g2), (a.d \div g2) * (b.d \div g1))

\* 1 / a  (a zero divisor is +0 wherever the engine divides)
Recip(a) ==
    IF IsNaN(a) THEN NaN
    ELSE IF a.d = 0 THEN Zero
    ELSE IF a.n = 0 THEN PosInf
    ELSE IF a.n < 0 THEN [n |-> -a.d, d |-> -a.n]
    ELSE [n |-> a.d, d |-> a.n]

\* a / b
Div(a, b) == Mul(a, Recip(b))

\* Math.pow(a, k) for an integer k >= 0; Math.pow(x, 0) is 1 for every x
RECURSIVE Pow(_, _)
Pow(a, k) == IF k <= 0 THEN One ELSE Mul(a, Pow(a, k - 1))

\* a/b < c/d for a, c >= 0 and b, d > 0, by continued fractions
RECURSIVE LtPos(_, _, _, _)
LtPos(a, b, c, d) ==
    IF a \div b # c \div d THEN a \div b < c \div d
    ELSE IF c % d = 0 THEN FALSE
    ELSE IF a % b = 0 THEN TRUE
    ELSE LtPos(d, c % d, b, a % b)

\* a < b
Lt(a, b) ==
    /\ ~IsNaN(a)
    /\ ~IsNaN(b)
    /\ IF a.d = 0 /\ b.d = 0 THEN a.n < b.n
       ELSE IF a.d = 0 THEN a.n < 0
       ELSE IF b.d = 0 THEN b.n > 0
       ELSE IF a.n < 0 /\ b.n >= 0 THEN TRUE
       ELSE IF a.n >= 0 /\ b.n < 0 THEN FALSE
       ELSE IF a.n < 0 THEN LtPos(-b.n, b.d, -a.n, a.d)
       ELSE LtPos(a.n, a.d, b.n, b.d)

\* a > b
Gt(a, b) == Lt(b, a)

\* a === b
Eq(a, b) == ~IsNaN(a) /\ ~IsNaN(b) /\ a = b

\* a !== b
Neq(a, b) == ~Eq(a, b)

\* Math.max(0, a)
Max0(a) == IF IsNaN(a) THEN NaN ELSE IF Lt(a, Zero) THEN Zero ELSE a

\* Math.abs(a)
AbsNum(a) == [n |-> Abs(a.n), d |-> a.d]

\* a || 0
OrZero(a) == IF IsNaN(a) THEN Zero ELSE a

\* k / 100 for an integer percentage k
Pct(k) == Norm(k, 100)

\* 1 + k / 100
OnePlusPct(k) == Add(One, Pct(k))

RECURSIVE SumSeq(_)
SumSeq(s) == IF s = <<>> THEN Zero ELSE Add(SumSeq(SubSeq(s, 1, Len(s) - 1)), s[Len(s)])

-----------------------------------------------------------------------------
(* Calendar dates: [y, m, d], as new Date("YYYY-MM-DD") read back with      *)
(* getFullYear / getMonth / getDate (m is 1-based here)                    *)

IsLeap(y) == (y % 4 = 0 /\ y % 100 # 0) \/ y % 400 = 0

DaysInMonth(y, m) ==
    IF m = 2 THEN (IF IsLeap(y) THEN 29 ELSE 28)
    ELSE IF m \in {4, 6, 9, 11} THEN 30 ELSE 31

\* a < b on timestamps
DateLt(a, b) ==
    \/ a.y < b.y
    \/ a.y = b.y /\ a.m < b.m
    \/ a.y = b.y /\ a.m = b.m /\ a.d < b.d

\* a <= b on timestamps
DateLe(a, b) == a = b \/ DateLt(a, b)

\* date.setFullYear(y): 29 February rolls over to 1 March in a common year
SetFullYear(date, y) ==
    IF date.d > DaysInMonth(y, date.m)
    THEN [y |-> y, m |-> date.m + 1, d |-> date.d - DaysInMonth(y, date.m)]
    ELSE [y |-> y, m |-> date.m, d |-> date.d]

\* date.setDate(date.getDate() - 1)
SetDateMinusOne(date) ==
    IF date.d > 1 THEN [date EXCEPT !.d = date.d - 1]
    ELSE IF date.m > 1
         THEN [y |-> date.y, m |-> date.m - 1, d |-> DaysInMonth(date.y, date.m - 1)]
         ELSE [y |-> date.y - 1, m |-> 12, d |-> 31]

AnalysisYearStartDate(in, projYearIdx) ==
    SetFullYear(in.effectiveDate, in.effectiveDate.y + projYearIdx)

AnalysisYearEndDate(in, projYearIdx) ==
    SetDateMinusOne(SetFullYear(in.effectiveDate, in.effectiveDate.y + projYearIdx + 1))

-----------------------------------------------------------------------------
(* projectSingleLeaseCashFlows                                             *)

\* the lease term overlaps the analysis year (dcf.ts:94)
LeaseActiveInYear(lease, in, projYearIdx) ==
    /\ DateLe(lease.leaseStartDate, AnalysisYearEndDate(in, projYearIdx))
    /\ DateLe(AnalysisYearStartDate(in, projYearIdx), lease.leaseEndDate)

\* escalations counted from the first projection year
YearsIntoLeaseByProjectionYear(lease, in, projYearIdx) == projYearIdx

\* dcf.ts:97-104
YearsIntoLeaseForEscalation(lease, in, projYearIdx) ==
    LET s  == AnalysisYearStartDate(in, projYearIdx)
        ls == lease.leaseStartDate
        y0 == s.y - ls.y
        y1 == IF s.m < ls.m \/ (s.m = ls.m /\ s.d < ls.d) THEN y0 - 1 ELSE y0
    IN  IF y1 < 0 THEN 0 ELSE y1

\* [...schedule].sort((a, b) => a.yearInLeaseTerm - b.yearInLeaseTerm), stable
RECURSIVE InsertStep(_, _)
InsertStep(sorted, step) ==
    IF sorted = <<>> THEN <<step>>
    ELSE IF sorted[Len(sorted)].yearInLeaseTerm <= step.yearInLeaseTerm
         THEN Append(sorted, step)
         ELSE Append(InsertStep(SubSeq(sorted, 1, Len(sorted) - 1), step),
                     sorted[Len(sorted)])

\* the schedule walked in the order given
ScheduleAsGiven(schedule) == schedule

\* dcf.ts:115
RECURSIVE SortSchedule(_)
SortSchedule(schedule) ==
    IF schedule = <<>> THEN <<>>
    ELSE InsertStep(SortSchedule(SubSeq(schedule, 1, Len(schedule) - 1)),
                    schedule[Len(schedule)])

\* the loop of dcf.ts:116-122 over the sorted schedule, from position k
RECURSIVE StepRentFrom(_, _, _, _)
StepRentFrom(sortedSchedule, k, currentLeaseYearNumber, effectiveStepRentPerSF) ==
    IF k > Len(sortedSchedule) THEN effectiveStepRentPerSF
    ELSE IF currentLeaseYearNumber >= sortedSchedule[k].yearInLeaseTerm
         THEN StepRentFrom(sortedSchedule, k + 1, currentLeaseYearNumber,
                           sortedSchedule[k].rentPerSF)
         ELSE effectiveStepRentPerSF

\* lease.stepUpSchedule && lease.stepUpSchedule.length > 0 (<<>> when missing)
HasStepUpSchedule(lease) == Len(lease.stepUpSchedule) > 0

\* the CPI review placed at the lease years that are multiples of the frequency
CurrentYearLeaseRentReviewedAtMultiples(lease, in, projYearIdx) ==
    LET yearsIntoLease == YearsIntoLeaseForEscalation(lease, in, projYearIdx)
        baseAnnualRent == Mul(R(lease.squareFeet), R(lease.currentRentPerSF))
        currentLeaseYearNumber == yearsIntoLease + 1
    IN  IF lease.escalationType = "fixedPercent" /\ lease.escalationPercent > 0
        THEN Mul(baseAnnualRent, Pow(OnePlusPct(lease.escalationPercent), yearsIntoLease))
        ELSE IF lease.escalationType = "stepUp" /\ HasStepUpSchedule(lease)
        THEN Mul(R(lease.squareFeet),
                 R(StepRentFrom(SortSchedule(lease.stepUpSchedule), 1,
                                currentLeaseYearNumber, lease.currentRentPerSF)))
        ELSE IF lease.escalationType = "cpi"
        THEN LET escalationRateToApply ==
                     Coalesce(lease.cpiEscalationRatePercent, in.globalMarketRentGrowthPercent)
                 reviewFrequency == Coalesce(lease.cpiReviewFrequencyYears, 1)
             IN  IF currentLeaseYearNumber > 0 /\ reviewFrequency > 0
                 THEN Mul(baseAnnualRent,
                          Pow(OnePlusPct(escalationRateToApply),
                              (currentLeaseYearNumber \div reviewFrequency)
                                  * reviewFrequency))
                 ELSE baseAnnualRent
        ELSE baseAnnualRent

\* rent of an active lease in the analysis year (dcf.ts:107-141)
CurrentYearLeaseRent(lease, in, projYearIdx) ==
    LET yearsIntoLease == YearsIntoLeaseForEscalation(lease, in, projYearIdx)
        baseAnnualRent == Mul(R(lease.squareFeet), R(lease.currentRentPerSF))
        currentLeaseYearNumber == yearsIntoLease + 1
    IN  IF lease.escalationType = "fixedPercent" /\ lease.escalationPercent > 0
        THEN Mul(baseAnnualRent, Pow(OnePlusPct(lease.escalationPercent), yearsIntoLease))
        ELSE IF lease.escalationType = "stepUp" /\ HasStepUpSchedule(lease)
        THEN Mul(R(lease.squareFeet),
                 R(StepRentFrom(SortSchedule(lease.stepUpSchedule), 1,
                                currentLeaseYearNumber, lease.currentRentPerSF)))
        ELSE IF lease.escalationType = "cpi"
        THEN LET escalationRateToApply ==
                     Coalesce(lease.cpiEscalationRatePercent, in.globalMarketRentGrowthPercent)
                 reviewFrequency == Coalesce(lease.cpiReviewFrequencyYears, 1)
             IN  IF currentLeaseYearNumber > 0 /\ reviewFrequency > 0
                 THEN Mul(baseAnnualRent,
                          Pow(OnePlusPct(escalationRateToApply),
                              ((currentLeaseYearNumber - 1) \div reviewFrequency)
                                  * reviewFrequency))
                 ELSE baseAnnualRent
        ELSE baseAnnualRent

\* console.warn is reached (dcf.ts:136-138)
EscalationWarned(lease) ==
    /\ ~(lease.escalationType = "fixedPercent" /\ lease.escalationPercent > 0)
    /\ ~(lease.escalationType = "stepUp" /\ HasStepUpSchedule(lease))
    /\ lease.escalationType # "cpi"
    /\ lease.escalationType \in {"stepUp", "cpi"}

\* the renewal test is applied in this analysis year (dcf.ts:149-156)
RenewalTestYear(lease, in, projYearIdx) ==
    LET s == AnalysisYearStartDate(in, projYearIdx)
    IN  /\ ~LeaseActiveInYear(lease, in, projYearIdx)
        /\ DateLt(lease.leaseEndDate, s)
        /\ \/ s.y = lease.leaseEndDate.y + 1
           \/ s.y = lease.leaseEndDate.y /\ s.m > lease.leaseEndDate.m

\* a renewal decided by a draw against the probability
RenewsByRandomDraw(lease) == rng < lease.renewalProbabilityPercent

\* a renewal only above an even chance
RenewsAboveHalf(lease) == lease.renewalProbabilityPercent > 50

\* the renewal decision of dcf.ts:160
Renews(lease) == lease.renewalProbabilityPercent >= 50

\* dcf.ts:169-183
InflatedRenewalMarketRentPerSF(lease, in, projYearIdx) ==
    LET priorTermLength == lease.leaseEndDate.y - lease.leaseStartDate.y
        lastEscalatedRentSF ==
            IF lease.escalationType = "fixedPercent" /\ lease.escalationPercent > 0
            THEN Mul(R(lease.currentRentPerSF),
                     Pow(OnePlusPct(lease.escalationPercent),
                         IF priorTermLength < 0 THEN 0 ELSE priorTermLength))
            ELSE R(lease.currentRentPerSF)
        renewalBaseRentPerSF ==
            IF lease.renewRentBumpPercent # 0
            THEN Mul(lastEscalatedRentSF, OnePlusPct(lease.renewRentBumpPercent))
            ELSE R(lease.renewalMarketRentPerSF)
        yearsToInflateRenewalRent ==
            AnalysisYearStartDate(in, projYearIdx).y - in.effectiveDate.y
    IN  Mul(renewalBaseRentPerSF,
            Pow(OnePlusPct(in.globalMarketRentGrowthPercent),
                IF yearsToInflateRenewalRent < 0 THEN 0 ELSE yearsToInflateRenewalRent))

\* the step-up schedule sorted where the lease keeps it
LeaseSortedInPlace(lease) ==
    IF lease.escalationType = "stepUp" /\ HasStepUpSchedule(lease)
    THEN [lease EXCEPT !.stepUpSchedule = SortSchedule(@)]
    ELSE lease

\* the caller's lease after projectSingleLeaseCashFlows: dcf.ts:115 sorts a
\* copy of the schedule ([...lease.stepUpSchedule]) and the assignments of
\* dcf.ts:143-198 are to yearDetail and yearlyDetails, objects of the call
LeaseAfterProjection(lease) == lease

\* one iteration of the loop of dcf.ts:74-199
LeaseYearDetail(lease, in, projYearIdx) ==
    LET blank == [year |-> projYearIdx + 1, scheduledRent |-> Zero, reimbursements |-> Zero,
                  tiCosts |-> Zero, lcCosts |-> Zero, isVacantAfterExpiry |-> FALSE,
                  warned |-> FALSE]
    IN  IF LeaseActiveInYear(lease, in, projYearIdx)
        THEN [blank EXCEPT !.scheduledRent = CurrentYearLeaseRent(lease, in, projYearIdx),
                           !.warned = EscalationWarned(lease)]
        ELSE IF RenewalTestYear(lease, in, projYearIdx)
        THEN IF Renews(lease)
             THEN LET downtimeFactor ==
                          Max0(Div(R(12 - lease.renewalDowntimeMonths), R(12)))
                      inflated == InflatedRenewalMarketRentPerSF(lease, in, projYearIdx)
                      firstYearFullRenewedRent == Mul(R(lease.squareFeet), inflated)
                  IN  [blank EXCEPT
                         !.scheduledRent =
                             Mul(Mul(R(lease.squareFeet), inflated), downtimeFactor),
                         !.tiCosts = Mul(R(lease.squareFeet), R(lease.renewalTiPerSF)),
                         !.lcCosts = Mul(firstYearFullRenewedRent,
                                         Pct(lease.renewalLcPercentOfFirstYearRent))]
             ELSE [blank EXCEPT !.isVacantAfterExpiry = TRUE]
        ELSE blank

ProjectSingleLeaseCashFlows(lease, in) ==
    [projYearIdx \in 1..in.projectionYears |-> LeaseYearDetail(lease, in, projYearIdx - 1)]

-----------------------------------------------------------------------------
(* calculateAnnualOperatingExpenses                                        *)

\* Object.keys(baseOpex) without managementPercentOfEGI
ExpenseKeys == <<"taxes", "insurance", "repairsMaintenance", "reserves">>

InflatedAmount(expenseItem, yearIndex, globalExpenseInflationPercent) ==
    Mul(R(expenseItem.amount),
        Pow(OnePlusPct(Coalesce(expenseItem.inflationRate, globalExpenseInflationPercent)),
            yearIndex))

IsRecoverable(key, expenseItem) ==
    \/ expenseItem.isRecoverable = Present(TRUE)
    \/ /\ expenseItem.isRecoverable = Absent
       /\ key \in {"taxes", "insurance", "repairsMaintenance"}

\* the inflated non-management buckets, summed (dcf.ts:218-235)
RECURSIVE BucketsTotal(_, _, _, _, _)
BucketsTotal(baseOpex, yearIndex, globalExpenseInflationPercent, k, recoverableOnly) ==
    IF k = 0 THEN Zero
    ELSE LET key == ExpenseKeys[k]
             rest == BucketsTotal(baseOpex, yearIndex, globalExpenseInflationPercent,
                                  k - 1, recoverableOnly)
         IN  IF recoverableOnly /\ ~IsRecoverable(key, baseOpex[key]) THEN rest
             ELSE Add(rest, InflatedAmount(baseOpex[key], yearIndex,
                                           globalExpenseInflationPercent))

\* the management fee percentage of the year (dcf.ts:239-245, 446-451, 456-460)
MgmtFeePercentage(baseOpex, yearIndex) ==
    LET mgmtFeeItem == baseOpex.managementPercentOfEGI
    IN  IF mgmtFeeItem.inflationRate # Absent
        THEN Mul(R(mgmtFeeItem.amount),
                 Pow(OnePlusPct(Coalesce(mgmtFeeItem.inflationRate, 0)), yearIndex))
        ELSE R(mgmtFeeItem.amount)

ManagementFee(baseOpex, yearIndex, egi) ==
    Mul(egi, Div(MgmtFeePercentage(baseOpex, yearIndex), R(100)))

CalculateAnnualOperatingExpenses(baseOpex, yearIndex, globalExpenseInflationPercent, currentYearEGIForMgmtFee) ==
    [totalOpex |->
        Add(BucketsTotal(baseOpex, yearIndex, globalExpenseInflationPercent,
                         Len(ExpenseKeys), FALSE),
            ManagementFee(baseOpex, yearIndex, currentYearEGIForMgmtFee)),
     recoverableOpexTotal |->
        BucketsTotal(baseOpex, yearIndex, globalExpenseInflationPercent,
                     Len(ExpenseKeys), TRUE)]

-----------------------------------------------------------------------------
(* calculateTerminalValue                                                  *)

\* the sale costs added to the gross proceeds
NetSaleProceedsCostsAdded(grossSaleProceeds, saleCostPercent) ==
    Add(grossSaleProceeds, Mul(grossSaleProceeds, Pct(saleCostPercent)))

\* dcf.ts:273-274
NetSaleProceeds(grossSaleProceeds, saleCostPercent) ==
    Sub(grossSaleProceeds, Mul(grossSaleProceeds, Pct(saleCostPercent)))

CalculateTerminalValue(finalYearNOI, nextYearNOIGrowthRate, exitCapRatePercent, saleCostPercent) ==
    IF exitCapRatePercent = 0
    THEN [grossSaleProceeds |-> Zero, netSaleProceeds |-> Zero, yearNPlusOneNOI |-> Zero]
    ELSE LET yearNPlusOneNOI == Mul(finalYearNOI, OnePlusPct(nextYearNOIGrowthRate))
             grossSaleProceeds == Div(yearNPlusOneNOI, Pct(exitCapRatePercent))
         IN  [grossSaleProceeds |-> grossSaleProceeds,
              netSaleProceeds |-> NetSaleProceeds(grossSaleProceeds, saleCostPercent),
              yearNPlusOneNOI |-> yearNPlusOneNOI]

-----------------------------------------------------------------------------
(* solveIRR                                                                *)

MAX_IRR_ITERATIONS == 100

\* IRR_PRECISION is 1 / IRR_PRECISION_INV
IRR_PRECISION_INV == 10000000

IRR_PRECISION == Norm(1, IRR_PRECISION_INV)

\* npv after the terms t = 0 .. upTo of the inner loop (cashFlows[t] is cfs[t + 1])
RECURSIVE NpvTerms(_, _, _)
NpvTerms(cfs, r, upTo) ==
    IF upTo < 0 THEN Zero
    ELSE Add(NpvTerms(cfs, r, upTo - 1), Div(cfs[upTo + 1], Pow(Add(One, r), upTo)))

\* dnpv_dr after the terms t = 1 .. upTo of the inner loop
RECURSIVE DnpvTerms(_, _, _)
DnpvTerms(cfs, r, upTo) ==
    IF upTo < 1 THEN Zero
    ELSE Sub(DnpvTerms(cfs, r, upTo - 1),
             Div(Mul(R(upTo), cfs[upTo + 1]), Pow(Add(One, r), upTo + 1)))

Npv(cfs, r) == NpvTerms(cfs, r, Len(cfs) - 1)

DnpvDr(cfs, r) == DnpvTerms(cfs, r, Len(cfs) - 1)

\* convergence accepted as soon as |npv| < 1
ConvergedWithinOne(cfs, r) == Lt(AbsNum(Npv(cfs, r)), One)

\* dcf.ts:35
Converged(cfs, r) == Lt(AbsNum(Npv(cfs, r)), IRR_PRECISION)

\* the zero-derivative test placed before the convergence test
IRRIterationDerivativeFirst(cfs, r) ==
    IF Eq(DnpvDr(cfs, r), Zero) THEN [kind |-> "return", value |-> NaN]
    ELSE IF Converged(cfs, r) THEN [kind |-> "return", value |-> Mul(r, R(100))]
    ELSE [kind |-> "continue", value |-> Sub(r, Div(Npv(cfs, r), DnpvDr(cfs, r)))]

\* one pass through the body of the loop of dcf.ts:25-44
IRRIteration(cfs, r) ==
    IF Converged(cfs, r) THEN [kind |-> "return", value |-> Mul(r, R(100))]
    ELSE IF Eq(DnpvDr(cfs, r), Zero) THEN [kind |-> "return", value |-> NaN]
    ELSE [kind |-> "continue", value |-> Sub(r, Div(Npv(cfs, r), DnpvDr(cfs, r)))]

\* one pass too many
LoopContinuesInclusive(k) == k <= MAX_IRR_ITERATIONS

\* the loop condition of dcf.ts:25
LoopContinues(k) == k < MAX_IRR_ITERATIONS

\* one more pass of the loop body, unless a return has been reached
IRRAdvance(cfs, st) ==
    IF st.kind = "return" THEN st ELSE IRRIteration(cfs, st.value)

\* n passes of the loop body: the first half of them, then the rest
RECURSIVE IRRAdvanceBy(_, _, _)
IRRAdvanceBy(cfs, st, n) ==
    IF n = 0 THEN st
    ELSE IF n = 1 THEN IRRAdvance(cfs, st)
    ELSE CHOOSE out \in {IRRAdvanceBy(cfs, mid, n - (n \div 2)) :
                             mid \in {IRRAdvanceBy(cfs, st, n \div 2)}} : TRUE

\* the loop of dcf.ts:25-44 and the return of dcf.ts:45
IRRLoop(cfs, guess) ==
    LET st == IRRAdvanceBy(cfs, [kind |-> "continue", value |-> guess],
                           MAX_IRR_ITERATIONS)
    IN  IF st.kind = "return" THEN st.value ELSE NaN

DefaultGuess == Norm(1, 10)

SolveIRR(cfs, guess) == IF Len(cfs) = 0 THEN Zero ELSE IRRLoop(cfs, guess)

-----------------------------------------------------------------------------
(* buildFullDCFCashFlows: one pass of the year loop (dcf.ts:296-496)       *)

RECURSIVE SumLeasedSF(_)
SumLeasedSF(rentRoll) ==
    IF rentRoll = <<>> THEN 0
    ELSE SumLeasedSF(SubSeq(rentRoll, 1, Len(rentRoll) - 1))
             + rentRoll[Len(rentRoll)].squareFeet

\* dcf.ts:290
InitialVacantSF(in) == in.rentableSF - SumLeasedSF(in.rentRoll)

\* dcf.ts:306-312, scheduled rent
TotalScheduledRentalRevenue(projections, idx) ==
    SumSeq([l \in 1..Len(projections) |-> projections[l][idx + 1].scheduledRent])

\* dcf.ts:306-312, TI and LC of the existing and renewing leases
LeaseTIsAndLCs(projections, idx) ==
    SumSeq([l \in 1..Len(projections) |->
               Add(projections[l][idx + 1].tiCosts, projections[l][idx + 1].lcCosts)])

\* dcf.ts:315-321
RECURSIVE SfNewlyVacantThisYearFromNonRenewals(_, _, _, _)
SfNewlyVacantThisYearFromNonRenewals(rentRoll, projections, idx, upTo) ==
    IF upTo = 0 THEN 0
    ELSE SfNewlyVacantThisYearFromNonRenewals(rentRoll, projections, idx, upTo - 1)
         + (IF projections[upTo][idx + 1].isVacantAfterExpiry
            THEN rentRoll[upTo].squareFeet ELSE 0)

\* the pool without the area already leased taken off
TotalVacantSFNeverReduced(in, idx, cumulativeVacant, sfLeased) ==
    LET pool == InitialVacantSF(in) + cumulativeVacant
    IN  IF pool < 0 THEN 0 ELSE pool

\* dcf.ts:323
TotalVacantSFAtStartOfYear(in, idx, cumulativeVacant, sfLeased) ==
    LET pool == (IF idx = 0 THEN InitialVacantSF(in) ELSE 0) + cumulativeVacant - sfLeased
    IN  IF pool < 0 THEN 0 ELSE pool

\* the market-leasing step leases area this year (dcf.ts:329)
MarketLeasingRuns(in, totalVacantSFAtStartOfYear) ==
    in.marketLeasingAssumptions # Null /\ totalVacantSFAtStartOfYear > 0

\* dcf.ts:330-345
MarketLeasing(in, idx, sfToLeaseThisYear) ==
    LET mla == in.marketLeasingAssumptions
        inflatedMarketRentPerSF ==
            Mul(R(mla.marketRentNewLeasePerSF),
                Pow(OnePlusPct(in.globalMarketRentGrowthPercent), idx))
        downtimeFactor ==
            Div(Max0(R(12 - mla.timeToLeaseVacantSFMonths)), R(12))
        firstYearFullRentForLC == Mul(R(sfToLeaseThisYear), inflatedMarketRentPerSF)
    IN  [rent |-> Mul(Mul(R(sfToLeaseThisYear), inflatedMarketRentPerSF), downtimeFactor),
         ti   |-> Mul(R(sfToLeaseThisYear), R(mla.newLeaseTiPerSF)),
         lc   |-> Mul(firstYearFullRentForLC, Pct(mla.newLeaseLcPercent))]

\* dcf.ts:361-368 (otherIncome is <<>> when missing)
CurrentYearOtherIncome(in, idx) ==
    IF Len(in.otherIncome) = 0 THEN Zero
    ELSE SumSeq([k \in 1..Len(in.otherIncome) |->
             Mul(R(in.otherIncome[k].amount),
                 Pow(OnePlusPct(Coalesce(in.otherIncome[k].growthRate,
                                         in.globalMarketRentGrowthPercent)), idx))])

\* no admin fee on top of the reimbursable amount
WithoutAdminFee(lease, reimbursableForLease) == reimbursableForLease

\* x + adminFee% of x when an admin fee is configured (dcf.ts:399-404, 411-416)
WithAdminFee(lease, reimbursableForLease) ==
    IF Coalesce(lease.adminFeeOnOpExPercent, 0) > 0
    THEN Add(reimbursableForLease,
             Mul(reimbursableForLease, Pct(Coalesce(lease.adminFeeOnOpExPercent, 0))))
    ELSE reimbursableForLease

\* dcf.ts:394-423; the loop of dcf.ts:386 runs over the whole rent roll and does
\* not look at the lease's dates
LeaseReimbursementAmount(lease, in, idx, recoverableOpexTotal) ==
    LET leaseProRataShare ==
            IF lease.squareFeet > 0 /\ in.rentableSF > 0
            THEN Div(R(lease.squareFeet), R(in.rentableSF)) ELSE Zero
        share == Mul(recoverableOpexTotal, leaseProRataShare)
    IN  IF lease.reimbursementType = "nnn" THEN WithAdminFee(lease, share)
        ELSE IF lease.reimbursementType = "modifiedGross"
        THEN IF Coalesce(lease.expenseStopAmountPerSF, 0) > 0
             THEN WithAdminFee(lease,
                      Max0(Sub(share, Mul(R(Coalesce(lease.expenseStopAmountPerSF, 0)),
                                          R(lease.squareFeet)))))
             ELSE Zero
        ELSE Zero

\* dcf.ts:474-488
CapexActualAmount(ce, in, potentialGrossRevenue, effectiveGrossIncome) ==
    IF ce.amountType = "percentPGI" THEN Mul(OrZero(potentialGrossRevenue), ce.amount)
    ELSE IF ce.amountType = "percentEGI" THEN Mul(OrZero(effectiveGrossIncome), ce.amount)
    ELSE IF ce.amountType = "perSF" THEN Mul(R(in.rentableSF), ce.amount)
    ELSE ce.amount

\* an item charged in its year and in every later year
RECURSIVE CapitalExpendituresFromItsYearOn(_, _, _, _, _)
CapitalExpendituresFromItsYearOn(in, currentYear, potentialGrossRevenue, effectiveGrossIncome, upTo) ==
    IF upTo = 0 THEN Zero
    ELSE LET rest == CapitalExpendituresFromItsYearOn(
                         in, currentYear, potentialGrossRevenue,
                         effectiveGrossIncome, upTo - 1)
             ce == in.capitalExpenditures[upTo]
         IN  IF ce.year <= currentYear
             THEN Add(rest, CapexActualAmount(ce, in, potentialGrossRevenue,
                                              effectiveGrossIncome))
             ELSE rest

\* dcf.ts:469-490
RECURSIVE CapitalExpenditures(_, _, _, _, _)
CapitalExpenditures(in, currentYear, potentialGrossRevenue, effectiveGrossIncome, upTo) ==
    IF upTo = 0 THEN Zero
    ELSE LET rest == CapitalExpenditures(in, currentYear, potentialGrossRevenue,
                                         effectiveGrossIncome, upTo - 1)
             ce == in.capitalExpenditures[upTo]
         IN  IF ce.year = currentYear
             THEN Add(rest, CapexActualAmount(ce, in, potentialGrossRevenue,
                                              effectiveGrossIncome))
             ELSE rest

\* the final fee added with the provisional fee left in
ReconciledFeeCountedTwice(in, idx, totalOpex, effectiveGrossRentalIncome, effectiveGrossIncome) ==
    IF Neq(effectiveGrossIncome, effectiveGrossRentalIncome)
    THEN Add(totalOpex,
             ManagementFee(in.operatingExpensesBuckets, idx, effectiveGrossIncome))
    ELSE totalOpex

\* operating expenses after the adjustment of dcf.ts:445-464
ReconciledOperatingExpenses(in, idx, totalOpex, effectiveGrossRentalIncome, effectiveGrossIncome) ==
    IF Neq(effectiveGrossIncome, effectiveGrossRentalIncome)
    THEN Add(Sub(totalOpex,
                 ManagementFee(in.operatingExpensesBuckets, idx, effectiveGrossRentalIncome)),
             ManagementFee(in.operatingExpensesBuckets, idx, effectiveGrossIncome))
    ELSE totalOpex

\* The pass is modelled in five stages; each takes the fields computed so far
\* (cf) and adds its own.  Fields of the code's yearCF keep their names; the
\* pass's local variables are kept in the record as well, under their names.

\* dcf.ts:298-351: scheduled rent, TI/LC and the market-leasing step
RentalStage(in, idx, projections, cumulativeVacant, sfLeased) ==
    LET totalVacantSFAtStartOfYear ==
            TotalVacantSFAtStartOfYear(in, idx, cumulativeVacant, sfLeased)
        leasing == MarketLeasingRuns(in, totalVacantSFAtStartOfYear)
        market == MarketLeasing(in, idx, totalVacantSFAtStartOfYear)
    IN  [year |-> idx + 1,
         potentialBaseRent |-> Zero,
         scheduledEscalationsRevenue |-> Zero,
         totalScheduledRentalRevenue |-> TotalScheduledRentalRevenue(projections, idx),
         tenantImprovementsAndLcs |->
             Add(LeaseTIsAndLCs(projections, idx),
                 IF leasing THEN Add(market.ti, market.lc) ELSE Zero),
         potentialMarketRentFromVacancy |-> IF leasing THEN market.rent ELSE Zero,
         totalVacantSFAtStartOfYear |-> totalVacantSFAtStartOfYear,
         sfToLeaseThisYear |-> IF leasing THEN totalVacantSFAtStartOfYear ELSE 0,
         sfNewlyVacantThisYearFromNonRenewals |->
             SfNewlyVacantThisYearFromNonRenewals(in.rentRoll, projections, idx,
                                                  Len(in.rentRoll))]

\* the losses charged on rental income and other income together
LossStageOnAllIncome(in, idx, cf) ==
    LET potentialIncome ==
            Add(Add(cf.totalScheduledRentalRevenue, OrZero(cf.potentialMarketRentFromVacancy)),
                CurrentYearOtherIncome(in, idx))
        vacancyLoss ==
            Mul(potentialIncome, Pct(in.generalVacancyRatePercentForProjections))
        creditLoss ==
            Mul(Sub(potentialIncome, vacancyLoss), Pct(in.creditCollectionLossPercent))
    IN  cf @@ [generalVacancyLoss |-> vacancyLoss,
               creditLoss |-> creditLoss,
               effectiveGrossRentalIncome |->
                   Sub(Sub(Sub(potentialIncome, CurrentYearOtherIncome(in, idx)),
                           vacancyLoss), creditLoss),
               currentYearOtherIncome |-> CurrentYearOtherIncome(in, idx)]

\* dcf.ts:354-368: vacancy and credit loss on rental income, other income
LossStage(in, idx, cf) ==
    LET potentialRentalIncome ==
            Add(cf.totalScheduledRentalRevenue, OrZero(cf.potentialMarketRentFromVacancy))
        vacancyLossOnRental ==
            Mul(potentialRentalIncome, Pct(in.generalVacancyRatePercentForProjections))
        creditLossOnRental ==
            Mul(Sub(potentialRentalIncome, vacancyLossOnRental),
                Pct(in.creditCollectionLossPercent))
    IN  cf @@ [generalVacancyLoss |-> vacancyLossOnRental,
               creditLoss |-> creditLossOnRental,
               effectiveGrossRentalIncome |->
                   Sub(Sub(potentialRentalIncome, vacancyLossOnRental),
                       creditLossOnRental),
               currentYearOtherIncome |-> CurrentYearOtherIncome(in, idx)]

\* dcf.ts:375-382: the first pass over the operating expenses
ExpenseStage(in, idx, cf) ==
    LET opexResults ==
            CalculateAnnualOperatingExpenses(in.operatingExpensesBuckets, idx,
                in.globalExpenseInflationPercent, cf.effectiveGrossRentalIncome)
    IN  cf @@ [initialTotalOpex |-> opexResults.totalOpex,
               recoverableOpexTotal |-> opexResults.recoverableOpexTotal]

\* dcf.ts:384-426: tenant reimbursements
ReimbursementStage(in, idx, cf) ==
    LET leaseReimbursementAmount ==
            [l \in 1..Len(in.rentRoll) |->
                LeaseReimbursementAmount(in.rentRoll[l], in, idx, cf.recoverableOpexTotal)]
    IN  cf @@ [leaseReimbursementAmount |-> leaseReimbursementAmount,
               tenantReimbursementsNNN |-> SumSeq(leaseReimbursementAmount)]

\* dcf.ts:428-440: potential gross revenue and effective gross income
RevenueStage(in, idx, cf) ==
    LET potentialGrossRevenue ==
            Add(Add(Add(cf.totalScheduledRentalRevenue, cf.tenantReimbursementsNNN),
                    cf.currentYearOtherIncome), cf.potentialMarketRentFromVacancy)
    IN  cf @@ [potentialGrossRevenue |-> potentialGrossRevenue,
               effectiveGrossIncome |->
                   Sub(Sub(potentialGrossRevenue, cf.generalVacancyLoss), cf.creditLoss)]

\* dcf.ts:442-466: management-fee adjustment and NOI
IncomeStage(in, idx, cf) ==
    LET operatingExpenses ==
            ReconciledOperatingExpenses(in, idx, cf.initialTotalOpex,
                cf.effectiveGrossRentalIncome, cf.effectiveGrossIncome)
    IN  cf @@ [operatingExpenses |-> operatingExpenses,
               netOperatingIncome |-> Sub(cf.effectiveGrossIncome, operatingExpenses)]

\* the capital expenditures left out of the net cash flow
CashFlowStageCapexOmitted(in, idx, cf) ==
    LET capitalExpenditures ==
            CapitalExpenditures(in, idx + 1, cf.potentialGrossRevenue,
                                cf.effectiveGrossIncome, Len(in.capitalExpenditures))
        netCashFlow == Sub(cf.netOperatingIncome, cf.tenantImprovementsAndLcs)
    IN  cf @@ [capitalExpenditures |-> capitalExpenditures,
               netCashFlow |-> netCashFlow,
               netCashFlowWithTerminal |-> netCashFlow,
               presentValueFactor |-> Null,
               presentValueOfNetCashFlow |-> Null]

\* dcf.ts:468-493: capital expenditures and net cash flow
CashFlowStage(in, idx, cf) ==
    LET capitalExpenditures ==
            CapitalExpenditures(in, idx + 1, cf.potentialGrossRevenue,
                                cf.effectiveGrossIncome, Len(in.capitalExpenditures))
        netCashFlow ==
            Sub(Sub(cf.netOperatingIncome, cf.tenantImprovementsAndLcs),
                capitalExpenditures)
    IN  cf @@ [capitalExpenditures |-> capitalExpenditures,
               netCashFlow |-> netCashFlow,
               netCashFlowWithTerminal |-> netCashFlow,
               presentValueFactor |-> Null,
               presentValueOfNetCashFlow |-> Null]

\* the record pushed at dcf.ts:495
YearCF(in, idx, projections, cumulativeVacant, sfLeased) ==
    CashFlowStage(in, idx,
      IncomeStage(in, idx,
        RevenueStage(in, idx,
          ReimbursementStage(in, idx,
            ExpenseStage(in, idx,
              LossStage(in, idx,
                RentalStage(in, idx, projections, cumulativeVacant, sfLeased)))))))

-----------------------------------------------------------------------------
(* buildFullDCFCashFlows: the steps after the year loop                    *)

\* dcf.ts:499-505
TerminalValueOf(in, cfs) ==
    CalculateTerminalValue(IF in.projectionYears \in 1..Len(cfs)
                           THEN OrZero(cfs[in.projectionYears].netOperatingIncome)
                           ELSE Zero,
                           in.globalMarketRentGrowthPercent, in.exitCapRate,
                           in.saleCostPercent)

\* the net sale proceeds added to every year
WithNetSaleProceedsEveryYear(in, cfs, netSaleProceeds) ==
    [t \in 1..Len(cfs) |->
        [cfs[t] EXCEPT !.netCashFlowWithTerminal = Add(@, netSaleProceeds)]]

\* dcf.ts:508-510
WithNetSaleProceeds(in, cfs, netSaleProceeds) ==
    IF Len(cfs) = in.projectionYears
    THEN [cfs EXCEPT ![in.projectionYears].netCashFlowWithTerminal =
                         Add(@, netSaleProceeds)]
    ELSE cfs

\* the factor of the year before
PresentValueFactorYearBefore(in, year) ==
    Div(One, Pow(OnePlusPct(in.discountRatePercent), year - 1))

\* the factor compounded instead of discounted
PresentValueFactorCompounded(in, year) ==
    Pow(OnePlusPct(in.discountRatePercent), year)

\* dcf.ts:515
PresentValueFactor(in, year) ==
    Div(One, Pow(OnePlusPct(in.discountRatePercent), year))

\* dcf.ts:514-518, the records
Discounted(in, cfs) ==
    [t \in 1..Len(cfs) |->
        [cfs[t] EXCEPT
            !.presentValueFactor = PresentValueFactor(in, cfs[t].year),
            !.presentValueOfNetCashFlow =
                Mul(cfs[t].netCashFlowWithTerminal, PresentValueFactor(in, cfs[t].year))]]

\* dcf.ts:513-520, the sum
SumOfPVs(cfs) == SumSeq([t \in 1..Len(cfs) |-> cfs[t].presentValueOfNetCashFlow])

\* the ratio, not the percentage
GoingInCapRateAsRatio(cfs, dcf) ==
    IF Neq(dcf, Zero)
    THEN Div(IF Len(cfs) > 0 THEN OrZero(cfs[1].netOperatingIncome) ELSE Zero, dcf)
    ELSE Zero

\* dcf.ts:521-522
GoingInCapRate(cfs, dcf) ==
    IF Neq(dcf, Zero)
    THEN Mul(Div(IF Len(cfs) > 0 THEN OrZero(cfs[1].netOperatingIncome) ELSE Zero, dcf),
             R(100))
    ELSE Zero

\* dcf.ts:527-528
IrrCashFlowsOf(cfs, dcf) ==
    <<Neg(dcf)>> \o [t \in 1..Len(cfs) |-> cfs[t].netCashFlowWithTerminal]

-----------------------------------------------------------------------------
(* The inputs explored                                                     *)

MaxYears == 3

MaxLeases == 2

MaxSeriesLen == 2

Date(y, m, d) == [y |-> y, m |-> m, d |-> d]

\* active through the whole horizon; fixed-percent escalation; NNN with admin fee
LeaseAnchor ==
    [squareFeet |-> 2, currentRentPerSF |-> 3,
     leaseStartDate |-> Date(2023, 1, 1), leaseEndDate |-> Date(2033, 12, 31),
     escalationType |-> "fixedPercent", escalationPercent |-> 100,
     cpiEscalationRatePercent |-> Absent, cpiReviewFrequencyYears |-> Absent,
     stepUpSchedule |-> <<>>,
     reimbursementType |-> "nnn", expenseStopAmountPerSF |-> Absent,
     adminFeeOnOpExPercent |-> Present(50),
     renewalProbabilityPercent |-> 80, renewRentBumpPercent |-> 0,
     renewalDowntimeMonths |-> 0, renewalMarketRentPerSF |-> 3,
     renewalTiPerSF |-> 0, renewalLcPercentOfFirstYearRent |-> 0]

\* expires in the first projection year and does not renew; CPI escalation; NNN
LeaseExpiring ==
    [squareFeet |-> 1, currentRentPerSF |-> 4,
     leaseStartDate |-> Date(2022, 7, 1), leaseEndDate |-> Date(2024, 12, 31),
     escalationType |-> "cpi", escalationPercent |-> 0,
     cpiEscalationRatePercent |-> Absent, cpiReviewFrequencyYears |-> Present(2),
     stepUpSchedule |-> <<>>,
     reimbursementType |-> "nnn", expenseStopAmountPerSF |-> Absent,
     adminFeeOnOpExPercent |-> Absent,
     renewalProbabilityPercent |-> 40, renewRentBumpPercent |-> 0,
     renewalDowntimeMonths |-> 3, renewalMarketRentPerSF |-> 5,
     renewalTiPerSF |-> 1, renewalLcPercentOfFirstYearRent |-> 50]

\* starts in the second projection year, expires in it and renews; step-up
\* escalation with an unsorted schedule; modified gross with an expense stop
LeaseLate ==
    [squareFeet |-> 1, currentRentPerSF |-> 2,
     leaseStartDate |-> Date(2025, 6, 1), leaseEndDate |-> Date(2025, 12, 31),
     escalationType |-> "stepUp", escalationPercent |-> 0,
     cpiEscalationRatePercent |-> Absent, cpiReviewFrequencyYears |-> Absent,
     stepUpSchedule |-> << [yearInLeaseTerm |-> 2, rentPerSF |-> 5],
                           [yearInLeaseTerm |-> 1, rentPerSF |-> 3] >>,
     reimbursementType |-> "modifiedGross", expenseStopAmountPerSF |-> Present(1),
     adminFeeOnOpExPercent |-> Present(100),
     renewalProbabilityPercent |-> 60, renewRentBumpPercent |-> 50,
     renewalDowntimeMonths |-> 6, renewalMarketRentPerSF |-> 3,
     renewalTiPerSF |-> 2, renewalLcPercentOfFirstYearRent |-> 50]

Leases == <<LeaseAnchor, LeaseExpiring, LeaseLate>>

\* rent rolls of at most MaxLeases leases, listed in the order of Leases
RentRolls ==
    UNION { { [k \in 1..n |-> Leases[f[k]]] :
              f \in { g \in [1..n -> 1..Len(Leases)] :
                         \A k \in 1..(n - 1) : g[k] <= g[k + 1] } } :
            n \in 0..MaxLeases }
    \cup
    \* a gross lease and a modified-gross lease without an expense stop
    { << [LeaseAnchor EXCEPT !.reimbursementType = "gross"],
         [LeaseLate EXCEPT !.expenseStopAmountPerSF = Absent] >> }

NoExpense == [amount |-> 0, inflationRate |-> Absent, isRecoverable |-> Absent]

OpexNone ==
    [taxes |-> NoExpense, insurance |-> NoExpense, repairsMaintenance |-> NoExpense,
     reserves |-> NoExpense, managementPercentOfEGI |-> NoExpense]

OpexSome ==
    [taxes |-> [amount |-> 4, inflationRate |-> Absent, isRecoverable |-> Absent],
     insurance |-> [amount |-> 2, inflationRate |-> Present(100), isRecoverable |-> Present(FALSE)],
     repairsMaintenance |-> [amount |-> 8, inflationRate |-> Present(0), isRecoverable |-> Absent],
     reserves |-> [amount |-> 1, inflationRate |-> Absent, isRecoverable |-> Present(TRUE)],
     managementPercentOfEGI |-> [amount |-> 25, inflationRate |-> Present(100),
                                 isRecoverable |-> Absent]]

OtherIncomeSome ==
    << [amount |-> 1, growthRate |-> Absent], [amount |-> 2, growthRate |-> Present(100)] >>

CapexSome ==
    << [year |-> 1, amountType |-> "fixed", amount |-> R(1)],
       [year |-> 2, amountType |-> "percentEGI", amount |-> Norm(1, 2)],
       [year |-> 2, amountType |-> "perSF", amount |-> R(1)],
       [year |-> 3, amountType |-> "percentPGI", amount |-> Norm(1, 4)],
       [year |-> 0, amountType |-> "fixed", amount |-> R(7)] >>

MarketLeasingSome ==
    [marketRentNewLeasePerSF |-> 2, timeToLeaseVacantSFMonths |-> 6,
     newLeaseTiPerSF |-> 1, newLeaseLcPercent |-> 50]

\* expenses, other income and capital items, all absent or all present
Schedules ==
    { [operatingExpensesBuckets |-> OpexNone, otherIncome |-> <<>>,
       capitalExpenditures |-> <<>>],
      [operatingExpensesBuckets |-> OpexSome, otherIncome |-> OtherIncomeSome,
       capitalExpenditures |-> CapexSome] }

EffectiveDate == Date(2024, 1, 1)

\* 10 is the rate the solver's default guess equals; -100 zeroes 1 + rate/100
DiscountRates == {10, -100}

ExitCapRates == {0, 50}

RentableSFs == {0, 4}

InputSpace ==
    { [projectionYears |-> n,
       effectiveDate |-> EffectiveDate,
       rentableSF |-> sf,
       rentRoll |-> rr,
       globalMarketRentGrowthPercent |-> 100,
       globalExpenseInflationPercent |-> 100,
       generalVacancyRatePercentForProjections |-> 50,
       creditCollectionLossPercent |-> 50,
       discountRatePercent |-> dr,
       exitCapRate |-> cap,
       saleCostPercent |-> 50,
       operatingExpensesBuckets |-> sch.operatingExpensesBuckets,
       otherIncome |-> sch.otherIncome,
       capitalExpenditures |-> sch.capitalExpenditures,
       marketLeasingAssumptions |-> mla] :
      n \in -1..MaxYears, sf \in RentableSFs, rr \in RentRolls, dr \in DiscountRates,
      cap \in ExitCapRates, sch \in Schedules, mla \in {Null, MarketLeasingSome} }

\* values 100 * Math.random() may take
Draws == {10, 90}

\* the value it takes in the first run
FirstDraw == CHOOSE d \in Draws : \A e \in Draws : d <= e

Pending == [pending |-> TRUE]

-----------------------------------------------------------------------------
(* The engine: buildFullDCFCashFlows, invoked twice on the same inputs     *)

IrrIdle ==
    /\ irrCashFlows = <<>>
    /\ irrGuess = DefaultGuess
    /\ rate = Null
    /\ irrIter = 0
    /\ irrPc = "unused"
    /\ irrReturn = Pending
    /\ irrSawZeroDerivative = FALSE
    /\ irrUpdates = 0

FnIdle == call = Null /\ ret = Pending

EngineIdle ==
    /\ inputs = Null
    /\ rng = FirstDraw
    /\ pc = "unused"
    /\ run = 1
    /\ prevResult = Pending
    /\ allLeaseProjections = <<>>
    /\ i = 0
    /\ cashFlows = <<>>
    /\ cumulativeVacantSFFromPriorYearNonRenewals = 0
    /\ sfLeasedInPriorYearsAndStillActive = 0
    /\ tv = Null
    /\ dcfValue = Null
    /\ result = Pending
    /\ steps = <<>>

Init ==
    /\ inputs \in InputSpace
    /\ rng = FirstDraw
    /\ pc = "idle"
    /\ run = 1
    /\ prevResult = Pending
    /\ allLeaseProjections = <<>>
    /\ i = 0
    /\ cashFlows = <<>>
    /\ cumulativeVacantSFFromPriorYearNonRenewals = 0
    /\ sfLeasedInPriorYearsAndStillActive = 0
    /\ tv = Null
    /\ dcfValue = Null
    /\ result = Pending
    /\ steps = <<>>
    /\ IrrIdle
    /\ FnIdle

\* a horizon of one year refused as well
HorizonAbsentBelowTwo(in) == in.projectionYears <= 1

\* the test of dcf.ts:281
HorizonAbsent(in) == in.projectionYears <= 0

\* dcf.ts:281, taken
ReturnNull ==
    /\ pc = "idle"
    /\ HorizonAbsent(inputs)
    /\ result' = Null
    /\ pc' = "done"
    /\ steps' = <<>>
    /\ UNCHANGED <<inputs, rng, run, prevResult, allLeaseProjections, i, cashFlows,
                   cumulativeVacantSFFromPriorYearNonRenewals,
                   sfLeasedInPriorYearsAndStillActive, tv, dcfValue>>
    /\ UNCHANGED <<irrVars, fnVars>>

\* dcf.ts:291-292
FreshPoolCounters == <<0, 0>>

\* dcf.ts:283-292
Begin ==
    /\ pc = "idle"
    /\ ~HorizonAbsent(inputs)
    /\ cashFlows' = <<>>
    /\ allLeaseProjections' =
           [l \in 1..Len(inputs.rentRoll) |->
               ProjectSingleLeaseCashFlows(inputs.rentRoll[l], inputs)]
    /\ cumulativeVacantSFFromPriorYearNonRenewals' = FreshPoolCounters[1]
    /\ sfLeasedInPriorYearsAndStillActive' = FreshPoolCounters[2]
    /\ i' = 0
    /\ tv' = Null
    /\ dcfValue' = Null
    /\ result' = Pending
    /\ steps' = <<>>
    /\ pc' = "years"
    /\ inputs' = [inputs EXCEPT !.rentRoll =
                      [l \in 1..Len(inputs.rentRoll) |->
                          LeaseAfterProjection(inputs.rentRoll[l])]]
    /\ UNCHANGED <<rng, run, prevResult>>
    /\ UNCHANGED <<irrVars, fnVars>>

\* one pass of the loop of dcf.ts:296-496
YearPass ==
    /\ pc = "years"
    /\ i < inputs.projectionYears
    /\ LET yearCF == YearCF(inputs, i, allLeaseProjections,
                            cumulativeVacantSFFromPriorYearNonRenewals,
                            sfLeasedInPriorYearsAndStillActive)
       IN  /\ cashFlows' = Append(cashFlows, yearCF)
           /\ sfLeasedInPriorYearsAndStillActive' =
                  sfLeasedInPriorYearsAndStillActive + yearCF.sfToLeaseThisYear
           /\ cumulativeVacantSFFromPriorYearNonRenewals' =
                  cumulativeVacantSFFromPriorYearNonRenewals
                      + yearCF.sfNewlyVacantThisYearFromNonRenewals
    /\ i' = i + 1
    /\ steps' = Append(steps, "year")
    /\ UNCHANGED <<inputs, rng, pc, run, prevResult, allLeaseProjections, tv, dcfValue,
                   result>>
    /\ UNCHANGED <<irrVars, fnVars>>

\* dcf.ts:498-510
TerminalValueStep ==
    /\ pc = "years"
    /\ i >= inputs.projectionYears
    /\ tv' = TerminalValueOf(inputs, cashFlows)
    /\ cashFlows' = WithNetSaleProceeds(inputs, cashFlows, tv'.netSaleProceeds)
    /\ steps' = Append(steps, "terminal")
    /\ pc' = "discount"
    /\ UNCHANGED <<inputs, rng, run, prevResult, allLeaseProjections, i,
                   cumulativeVacantSFFromPriorYearNonRenewals,
                   sfLeasedInPriorYearsAndStillActive, dcfValue, result>>
    /\ UNCHANGED <<irrVars, fnVars>>

\* dcf.ts:512-520
DiscountStep ==
    /\ pc = "discount"
    /\ cashFlows' = Discounted(inputs, cashFlows)
    /\ dcfValue' = SumOfPVs(cashFlows')
    /\ steps' = Append(steps, "discount")
    /\ pc' = "irr"
    /\ UNCHANGED <<inputs, rng, run, prevResult, allLeaseProjections, i,
                   cumulativeVacantSFFromPriorYearNonRenewals,
                   sfLeasedInPriorYearsAndStillActive, tv, result>>
    /\ UNCHANGED <<irrVars, fnVars>>

\* dcf.ts:521-540
IRRStep ==
    /\ pc = "irr"
    /\ result' =
           [projectedCashFlowsDCF |-> cashFlows,
            dcfValue |-> dcfValue,
            goingInCapRate |-> GoingInCapRate(cashFlows, dcfValue),
            internalRateOfReturn |->
                SolveIRR(IrrCashFlowsOf(cashFlows, dcfValue), DefaultGuess),
            netSaleProceedsTerminal |-> tv.netSaleProceeds,
            terminalValueGross |-> tv.grossSaleProceeds,
            yearNPlusOneNOI |-> tv.yearNPlusOneNOI]
    /\ steps' = Append(steps, "irr")
    /\ pc' = "done"
    /\ UNCHANGED <<inputs, rng, run, prevResult, allLeaseProjections, i, cashFlows,
                   cumulativeVacantSFFromPriorYearNonRenewals,
                   sfLeasedInPriorYearsAndStillActive, tv, dcfValue>>
    /\ UNCHANGED <<irrVars, fnVars>>

\* the caller recomputes on the same inputs (App.tsx:438, 450); Math.random()
\* may return anything in the new run
Reinvoke ==
    /\ pc = "done"
    /\ run = 1
    /\ prevResult' = result
    /\ run' = 2
    /\ rng' \in Draws
    /\ pc' = "idle"
    /\ UNCHANGED <<inputs, allLeaseProjections, i, cashFlows,
                   cumulativeVacantSFFromPriorYearNonRenewals,
                   sfLeasedInPriorYearsAndStillActive, tv, dcfValue, result, steps>>
    /\ UNCHANGED <<irrVars, fnVars>>

Next ==
    \/ ReturnNull
    \/ Begin
    \/ YearPass
    \/ TerminalValueStep
    \/ DiscountStep
    \/ IRRStep
    \/ Reinvoke

Spec == Init /\ [][Next]_vars

-----------------------------------------------------------------------------
(* solveIRR called directly, one loop iteration per step                   *)

CashFlowValues == {R(-1), R(0), R(1)}

\* every series of at most MaxSeriesLen cash flows
AllSeries == UNION {[1..n -> CashFlowValues] : n \in 0..MaxSeriesLen}

\* the series whose cash flows after year 0 are all zero
FlatSeries == {cfs \in AllSeries : \A t \in 2..Len(cfs) : cfs[t] = Zero}

Guesses == {DefaultGuess, R(0), R(1), R(-1)}

\* series and guesses whose Newton iterates stay within 32-bit numerators and
\* denominators: a series with no flow after year 0; any series started at the
\* pole r = -1; a root hit by the first guess; a root reached after two updates;
\* an iterate that lands on the pole r = -1
IRRCases ==
    {[cfs |-> cfs, guess |-> g] : cfs \in FlatSeries, g \in Guesses}
    \cup {[cfs |-> cfs, guess |-> R(-1)] : cfs \in AllSeries}
    \cup {[cfs |-> <<R(-10), R(11)>>, guess |-> DefaultGuess],
          [cfs |-> <<R(-1), R(1)>>, guess |-> R(0)],
          [cfs |-> <<R(-1), R(2)>>, guess |-> R(1)],
          [cfs |-> <<R(1), R(-1)>>, guess |-> R(0)],
          [cfs |-> <<Norm(-1, 10000), Norm(1, 10000)>>, guess |-> DefaultGuess],
          [cfs |-> <<Norm(1, 10000), Norm(-1, 10000)>>, guess |-> DefaultGuess],
          [cfs |-> <<R(-1), R(1)>>, guess |-> R(1)],
          [cfs |-> <<R(-1), R(1), R(0)>>, guess |-> R(1)]}

InitIRR ==
    /\ EngineIdle
    /\ FnIdle
    /\ \E c \in IRRCases : irrCashFlows = c.cfs /\ irrGuess = c.guess
    /\ rate = Null
    /\ irrIter = 0
    /\ irrPc = "call"
    /\ irrReturn = Pending
    /\ irrSawZeroDerivative = FALSE
    /\ irrUpdates = 0

\* dcf.ts:22, taken
IRRReturnEmpty ==
    /\ irrPc = "call"
    /\ Len(irrCashFlows) = 0
    /\ irrReturn' = Zero
    /\ irrPc' = "returned"
    /\ UNCHANGED <<irrCashFlows, irrGuess, rate, irrIter, irrSawZeroDerivative, irrUpdates>>
    /\ UNCHANGED <<engineVars, fnVars>>

\* dcf.ts:24
IRREnter ==
    /\ irrPc = "call"
    /\ Len(irrCashFlows) # 0
    /\ rate' = irrGuess
    /\ irrIter' = 0
    /\ irrPc' = "loop"
    /\ UNCHANGED <<irrCashFlows, irrGuess, irrReturn, irrSawZeroDerivative, irrUpdates>>
    /\ UNCHANGED <<engineVars, fnVars>>

\* dcf.ts:26-43, leaving through one of the returns
IRRIterateReturn ==
    /\ irrPc = "loop"
    /\ LoopContinues(irrIter)
    /\ IRRIteration(irrCashFlows, rate).kind = "return"
    /\ irrReturn' = IRRIteration(irrCashFlows, rate).value
    /\ irrSawZeroDerivative' =
           (irrSawZeroDerivative \/ Eq(DnpvDr(irrCashFlows, rate), Zero))
    /\ irrPc' = "returned"
    /\ UNCHANGED <<irrCashFlows, irrGuess, rate, irrIter, irrUpdates>>
    /\ UNCHANGED <<engineVars, fnVars>>

\* dcf.ts:26-43, reaching the update of dcf.ts:43
IRRIterateUpdate ==
    /\ irrPc = "loop"
    /\ LoopContinues(irrIter)
    /\ IRRIteration(irrCashFlows, rate).kind = "continue"
    /\ rate' = IRRIteration(irrCashFlows, rate).value
    /\ irrSawZeroDerivative' =
           (irrSawZeroDerivative \/ Eq(DnpvDr(irrCashFlows, rate), Zero))
    /\ irrIter' = irrIter + 1
    /\ irrUpdates' = irrUpdates + 1
    /\ UNCHANGED <<irrCashFlows, irrGuess, irrReturn, irrPc>>
    /\ UNCHANGED <<engineVars, fnVars>>

\* dcf.ts:45
IRRExhausted ==
    /\ irrPc = "loop"
    /\ ~LoopContinues(irrIter)
    /\ irrReturn' = NaN
    /\ irrPc' = "returned"
    /\ UNCHANGED <<irrCashFlows, irrGuess, rate, irrIter, irrSawZeroDerivative, irrUpdates>>
    /\ UNCHANGED <<engineVars, fnVars>>

NextIRR ==
    \/ IRRReturnEmpty
    \/ IRREnter
    \/ IRRIterateReturn
    \/ IRRIterateUpdate
    \/ IRRExhausted

SpecIRR == InitIRR /\ [][NextIRR]_vars

-----------------------------------------------------------------------------
(* calculateTerminalValue called on its own                                *)

FinalYearNOIs == {R(-3), R(0), R(7), Norm(5, 2)}

GrowthRates == {-100, 0, 3, 50}

CapRates == {-5, 0, 8, 100}

SaleCostPercents == {0, 3, 100, 150}

InitTV ==
    /\ EngineIdle
    /\ IrrIdle
    /\ call \in [fn : {"calculateTerminalValue"}, finalYearNOI : FinalYearNOIs,
                 nextYearNOIGrowthRate : GrowthRates, exitCapRatePercent : CapRates,
                 saleCostPercent : SaleCostPercents]
    /\ ret = Pending

ApplyTerminalValue ==
    /\ call # Null
    /\ call.fn = "calculateTerminalValue"
    /\ ret = Pending
    /\ ret' = CalculateTerminalValue(call.finalYearNOI, call.nextYearNOIGrowthRate,
                                     call.exitCapRatePercent, call.saleCostPercent)
    /\ UNCHANGED call
    /\ UNCHANGED <<engineVars, irrVars>>

NextTV == ApplyTerminalValue

SpecTV == InitTV /\ [][NextTV]_vars

-----------------------------------------------------------------------------
(* The discounting pass of dcf.ts:512-530 on its own: one series of        *)
(* netCashFlowWithTerminal discounted at two discount rates, as two        *)
(* invocations whose inputs differ only in discountRatePercent produce     *)
(* (no line before dcf.ts:515 reads discountRatePercent).                  *)

NetCashFlows == {R(-1), R(0), R(2)}

FlowSeries == UNION {[1..n -> NetCashFlows] : n \in 1..MaxYears}

PassRates == {-100, 0, 10, 25}

\* the records as dcf.ts:512 finds them
UndiscountedRecords(flows) ==
    [t \in 1..Len(flows) |->
        [year |-> t, netCashFlowWithTerminal |-> flows[t],
         presentValueFactor |-> Null, presentValueOfNetCashFlow |-> Null]]

\* dcf.ts:513-520
DcfValueAt(flows, discountRatePercent) ==
    SumOfPVs(Discounted([discountRatePercent |-> discountRatePercent],
                        UndiscountedRecords(flows)))

InitPV ==
    /\ EngineIdle
    /\ IrrIdle
    /\ call \in [fn : {"discount"}, flows : FlowSeries,
                 lower : PassRates, higher : PassRates]
    /\ call.lower < call.higher
    /\ ret = Pending

ApplyDiscounting ==
    /\ call # Null
    /\ call.fn = "discount"
    /\ ret = Pending
    /\ ret' = [lower |-> DcfValueAt(call.flows, call.lower),
               higher |-> DcfValueAt(call.flows, call.higher),
               irrCashFlowsLower |->
                   IrrCashFlowsOf(UndiscountedRecords(call.flows),
                                  DcfValueAt(call.flows, call.lower))]
    /\ UNCHANGED call
    /\ UNCHANGED <<engineVars, irrVars>>

-----------------------------------------------------------------------------
(* projectSingleLeaseCashFlows called on its own, over effective dates on  *)
(* and off the first of January and lease terms that end before, inside    *)
(* and after the horizon                                                   *)

LeaseCases ==
    { [lease |->
           [LeaseAnchor EXCEPT !.leaseStartDate = ls, !.leaseEndDate = le,
                               !.escalationPercent = esc,
                               !.renewalProbabilityPercent = prob,
                               !.renewalTiPerSF = 1,
                               !.renewalLcPercentOfFirstYearRent = 50],
       inputs |-> [projectionYears |-> MaxYears,
                   globalMarketRentGrowthPercent |-> 100,
                   effectiveDate |-> eff]] :
      ls \in {Date(2022, 7, 15), Date(2023, 1, 1), Date(2024, 3, 1)},
      le \in {Date(2024, 3, 15), Date(2024, 12, 31), Date(2025, 3, 15),
              Date(2025, 7, 10), Date(2025, 12, 31), Date(2033, 12, 31)},
      esc \in {100, -50},
      prob \in {40, 50, 80},
      eff \in {Date(2024, 1, 1), Date(2024, 7, 1), Date(2024, 7, 15)} }

\* leases that run through the horizon, over the escalation variants: CPI with
\* and without a rate and a review frequency of its own, step-up with a
\* missing, an unsorted and a late-starting schedule
EscalationCases ==
    { [lease |-> lease,
       inputs |-> [projectionYears |-> MaxYears,
                   globalMarketRentGrowthPercent |-> 100,
                   effectiveDate |-> eff]] :
      lease \in
          { [LeaseExpiring EXCEPT !.leaseStartDate = ls,
                                  !.leaseEndDate = Date(2033, 12, 31),
                                  !.cpiEscalationRatePercent = cpiRate,
                                  !.cpiReviewFrequencyYears = freq] :
            ls \in {Date(2022, 7, 15), Date(2023, 1, 1), Date(2024, 3, 1)},
            cpiRate \in {Absent, Present(50)},
            freq \in {Absent, Present(1), Present(2), Present(0), Present(-1)} }
          \cup
          { [LeaseLate EXCEPT !.leaseStartDate = ls,
                              !.leaseEndDate = Date(2033, 12, 31),
                              !.stepUpSchedule = schedule] :
            ls \in {Date(2022, 7, 15), Date(2023, 1, 1), Date(2024, 3, 1)},
            schedule \in
                { <<>>,
                  LeaseLate.stepUpSchedule,
                  << [yearInLeaseTerm |-> 3, rentPerSF |-> 7],
                     [yearInLeaseTerm |-> 2, rentPerSF |-> 5] >>,
                  << [yearInLeaseTerm |-> 4, rentPerSF |-> 9],
                     [yearInLeaseTerm |-> 2, rentPerSF |-> 5],
                     [yearInLeaseTerm |-> 3, rentPerSF |-> 4] >> } },
      eff \in {Date(2024, 1, 1), Date(2024, 7, 1), Date(2024, 7, 15)} }

InitLease ==
    /\ EngineIdle
    /\ IrrIdle
    /\ \E c \in LeaseCases \cup EscalationCases :
           call = [fn |-> "projectSingleLeaseCashFlows",
                   lease |-> c.lease, inputs |-> c.inputs]
    /\ ret = Pending

ApplyProjectSingleLease ==
    /\ call # Null
    /\ call.fn = "projectSingleLeaseCashFlows"
    /\ ret = Pending
    /\ ret' = ProjectSingleLeaseCashFlows(call.lease, call.inputs)
    /\ call' = [call EXCEPT !.lease = LeaseAfterProjection(call.lease)]
    /\ UNCHANGED <<engineVars, irrVars>>

-----------------------------------------------------------------------------
(* The engine and its parts called on their own                            *)

InitParts == Init \/ InitIRR \/ InitPV \/ InitLease

NextParts == Next \/ NextIRR \/ ApplyDiscounting \/ ApplyProjectSingleLease

SpecParts == InitParts /\ [][NextParts]_vars

-----------------------------------------------------------------------------
(* The engine and the solver together                                      *)

InitAll == Init \/ InitIRR

NextAll == Next \/ NextIRR

SpecAll == InitAll /\ [][NextAll]_vars

-----------------------------------------------------------------------------
(* Properties                                                              *)

\* buildFullDCFCashFlows has returned a result that is not null
Returned == pc = "done" /\ result # Null

\* C1: in every annual record the engine has produced,
\* effectiveGrossIncome = potentialGrossRevenue - generalVacancyLoss - creditLoss,
\* netOperatingIncome = effectiveGrossIncome - operatingExpenses (the reconciled
\* figure the record stores), and
\* netCashFlow = netOperatingIncome - tenantImprovementsAndLcs - capitalExpenditures.
C1_AccountingIdentities ==
    \A t \in 1..Len(cashFlows) :
        LET cf == cashFlows[t]
        IN  /\ cf.effectiveGrossIncome =
                   Sub(Sub(cf.potentialGrossRevenue, cf.generalVacancyLoss), cf.creditLoss)
            /\ cf.netOperatingIncome = Sub(cf.effectiveGrossIncome, cf.operatingExpenses)
            /\ cf.netCashFlow =
                   Sub(Sub(cf.netOperatingIncome, cf.tenantImprovementsAndLcs),
                       cf.capitalExpenditures)

\* a returned record with losses, reconciled expenses, TI/LC and capital items
C1_Witness ==
    /\ Returned
    /\ \E t \in 1..Len(result.projectedCashFlowsDCF) :
          LET cf == result.projectedCashFlowsDCF[t]
          IN  /\ cf.generalVacancyLoss # Zero
              /\ cf.creditLoss # Zero
              /\ cf.operatingExpenses # cf.initialTotalOpex
              /\ cf.tenantImprovementsAndLcs # Zero
              /\ cf.capitalExpenditures # Zero
              /\ cf.netCashFlow # cf.netOperatingIncome

\* C2: the engine returns null exactly when projectionYears <= 0; for
\* projectionYears = N >= 1 the result holds exactly N records, whose year
\* fields are 1, 2, ..., N in that order.
C2_NullOrNRecords ==
    pc = "done" =>
        /\ (result = Null) <=> (inputs.projectionYears <= 0)
        /\ inputs.projectionYears >= 1 =>
              /\ result # Null
              /\ Len(result.projectedCashFlowsDCF) = inputs.projectionYears
              /\ \A t \in 1..inputs.projectionYears :
                    result.projectedCashFlowsDCF[t].year = t

\* a horizon of one year has returned its single record
C2_Witness ==
    /\ Returned
    /\ inputs.projectionYears = 1
    /\ Len(result.projectedCashFlowsDCF) = 1

C4_ReimbursementOnlyWhenActive ==
    \A t \in 1..Len(cashFlows) : \A l \in 1..Len(inputs.rentRoll) :
        ~LeaseActiveInYear(inputs.rentRoll[l], inputs, t - 1)
            => cashFlows[t].leaseReimbursementAmount[l] = Zero

\* C5: before discounting, and in the returned result, every record of a year
\* t < N has netCashFlowWithTerminal = netCashFlow, and the record of year N has
\* netCashFlowWithTerminal = netCashFlow + netSaleProceedsTerminal, the net
\* proceeds being those of the terminal value of year N's NOI.
C5_ReversionInFinalYearOnly ==
    pc \in {"discount", "irr", "done"} /\ result # Null =>
        LET n == inputs.projectionYears
        IN  /\ \A t \in 1..(n - 1) :
                  cashFlows[t].netCashFlowWithTerminal = cashFlows[t].netCashFlow
            /\ cashFlows[n].netCashFlowWithTerminal =
                   Add(cashFlows[n].netCashFlow, tv.netSaleProceeds)
            /\ tv = CalculateTerminalValue(cashFlows[n].netOperatingIncome,
                        inputs.globalMarketRentGrowthPercent, inputs.exitCapRate,
                        inputs.saleCostPercent)
            /\ pc = "done" => result.netSaleProceedsTerminal = tv.netSaleProceeds

\* a returned run of several years whose net sale proceeds are not zero
C5_Witness ==
    /\ Returned
    /\ inputs.projectionYears >= 2
    /\ result.netSaleProceedsTerminal # Zero
    /\ cashFlows[1].netCashFlowWithTerminal = cashFlows[1].netCashFlow
    /\ cashFlows[inputs.projectionYears].netCashFlowWithTerminal #
           cashFlows[inputs.projectionYears].netCashFlow

\* C6: calculateTerminalValue returns yearNPlusOneNOI = finalNOI * (1 + g/100),
\* grossSaleProceeds = yearNPlusOneNOI / (exitCap/100) and
\* netSaleProceeds = grossSaleProceeds * (1 - saleCost/100) when exitCap is not
\* zero, and zero for all three when exitCap is zero.
C6_TerminalValue ==
    (call # Null /\ ret # Pending) =>
        LET hundred == R(100)
            yearNPlusOneNOI ==
                Mul(call.finalYearNOI, Add(One, Div(R(call.nextYearNOIGrowthRate), hundred)))
            grossSaleProceeds ==
                Div(yearNPlusOneNOI, Div(R(call.exitCapRatePercent), hundred))
            netSaleProceeds ==
                Mul(grossSaleProceeds, Sub(One, Div(R(call.saleCostPercent), hundred)))
        IN  IF call.exitCapRatePercent = 0
            THEN ret = [grossSaleProceeds |-> Zero, netSaleProceeds |-> Zero,
                        yearNPlusOneNOI |-> Zero]
            ELSE /\ ret.yearNPlusOneNOI = yearNPlusOneNOI
                 /\ ret.grossSaleProceeds = grossSaleProceeds
                 /\ ret.netSaleProceeds = netSaleProceeds

\* the function has returned proceeds reduced by a sale cost
C6_Witness ==
    /\ call # Null
    /\ ret # Pending
    /\ call.exitCapRatePercent # 0
    /\ call.saleCostPercent \in 1..99
    /\ Gt(ret.netSaleProceeds, Zero)
    /\ Lt(ret.netSaleProceeds, ret.grossSaleProceeds)
    /\ ret.yearNPlusOneNOI # call.finalYearNOI

\* C7: after discounting, every record of year t has
\* presentValueFactor = 1 / (1 + discountRate/100)^t and
\* presentValueOfNetCashFlow = netCashFlowWithTerminal * presentValueFactor, and
\* dcfValue is the sum of presentValueOfNetCashFlow over the N records.
C7_PresentValue ==
    pc \in {"irr", "done"} /\ result # Null =>
        /\ \A t \in 1..inputs.projectionYears :
              /\ cashFlows[t].presentValueFactor =
                     Div(One, Pow(Add(One, Div(R(inputs.discountRatePercent), R(100))), t))
              /\ cashFlows[t].presentValueOfNetCashFlow =
                     Mul(cashFlows[t].netCashFlowWithTerminal,
                         cashFlows[t].presentValueFactor)
        /\ dcfValue = SumSeq([t \in 1..inputs.projectionYears |->
                                 cashFlows[t].presentValueOfNetCashFlow])
        /\ pc = "done" => result.dcfValue = dcfValue

\* a returned run of three years discounted at a rate other than zero, with a
\* reversion in its last year
C7_Witness ==
    /\ Returned
    /\ inputs.projectionYears = 3
    /\ IsFinite(result.dcfValue)
    /\ result.dcfValue # Zero
    /\ result.netSaleProceedsTerminal # Zero
    /\ Lt(cashFlows[3].presentValueFactor, cashFlows[1].presentValueFactor)
    /\ \A t \in 1..3 : cashFlows[t].presentValueOfNetCashFlow # Zero

\* a division-by-zero hazard is present in the inputs
DivisionHazard(in) ==
    \/ in.exitCapRate = 0
    \/ OnePlusPct(in.discountRatePercent) = Zero
    \/ in.rentableSF = 0

\* C8: when the exit cap rate, the discount denominator or the rentable area is
\* zero, the terminal value, the present values and the reimbursements of the
\* returned result, and the totals built from them, are all finite.
C8_HazardsGuarded ==
    (Returned /\ DivisionHazard(inputs)) =>
        /\ IsFinite(result.terminalValueGross)
        /\ IsFinite(result.netSaleProceedsTerminal)
        /\ IsFinite(result.yearNPlusOneNOI)
        /\ IsFinite(result.dcfValue)
        /\ IsFinite(result.goingInCapRate)
        /\ \A t \in 1..Len(result.projectedCashFlowsDCF) :
              LET cf == result.projectedCashFlowsDCF[t]
              IN  /\ IsFinite(cf.tenantReimbursementsNNN)
                  /\ IsFinite(cf.netCashFlowWithTerminal)
                  /\ IsFinite(cf.presentValueFactor)
                  /\ IsFinite(cf.presentValueOfNetCashFlow)

\* |f(r)| < 1e-7 at the rate the solver stopped at
BelowPrecisionAtRate ==
    /\ rate # Null
    /\ Lt(AbsNum(Npv(irrCashFlows, rate)), Norm(1, 10000000))

\* f'(r) = 0 at the rate the solver stopped at
ZeroDerivativeAtRate ==
    /\ rate # Null
    /\ DnpvDr(irrCashFlows, rate) = Zero

\* solveIRR has left through dcf.ts:45
CapExhausted == irrPc = "returned" /\ irrIter >= 100

\* C9, as stated: NaN whenever a zero derivative was met and whenever the cap
\* was exhausted; 0 for an empty series; a number only when |f(r)| < 1e-7 was
\* reached and no zero derivative was met.
C9_AsStated ==
    irrPc = "returned" =>
        /\ irrSawZeroDerivative => IsNaN(irrReturn)
        /\ CapExhausted => IsNaN(irrReturn)
        /\ Len(irrCashFlows) = 0 => irrReturn = Zero
        /\ (Len(irrCashFlows) > 0 /\ ~IsNaN(irrReturn)) =>
              /\ BelowPrecisionAtRate
              /\ ~irrSawZeroDerivative
              /\ irrReturn = Mul(rate, R(100))

\* C9, amended: the convergence test comes first.  solveIRR returns 0 for an
\* empty series; rate x 100 as soon as |f(r)| < 1e-7 at the current rate, also
\* when f'(r) = 0 there; NaN when f'(r) = 0 at a rate where |f(r)| >= 1e-7, and
\* when the cap is exhausted; and a number only when |f(r)| < 1e-7 was reached.
C9_ConvergenceTestFirst ==
    irrPc = "returned" =>
        IF Len(irrCashFlows) = 0 THEN irrReturn = Zero
        ELSE IF CapExhausted THEN IsNaN(irrReturn)
        ELSE /\ BelowPrecisionAtRate => irrReturn = Mul(rate, R(100))
             /\ (ZeroDerivativeAtRate /\ ~BelowPrecisionAtRate) => IsNaN(irrReturn)
             /\ ~IsNaN(irrReturn) => BelowPrecisionAtRate
             /\ irrSawZeroDerivative <=> ZeroDerivativeAtRate

\* a series of zeros: the derivative is zero at the first guess, and the guess
\* comes back as a percentage
C9_Witness ==
    /\ irrPc = "returned"
    /\ Len(irrCashFlows) = MaxSeriesLen
    /\ \A t \in 1..Len(irrCashFlows) : irrCashFlows[t] = Zero
    /\ irrSawZeroDerivative
    /\ irrGuess # Zero
    /\ irrReturn = Mul(irrGuess, R(100))

\* the steps of a run over a horizon of n years
StepsOfRun(n) ==
    [k \in 1..(n + 3) |->
        IF k <= n THEN "year"
        ELSE IF k = n + 1 THEN "terminal"
        ELSE IF k = n + 2 THEN "discount" ELSE "irr"]

\* a call of solveIRR or of buildFullDCFCashFlows is under way
Running ==
    \/ irrPc \in {"call", "loop"}
    \/ pc \in {"idle", "years", "discount", "irr"}

\* an upper bound on the steps the call under way has yet to take
StepsLeft ==
    IF irrPc = "call" THEN 102
    ELSE IF irrPc = "loop" THEN 101 - irrIter
    ELSE IF pc = "idle" THEN (IF inputs.projectionYears > 0
                              THEN inputs.projectionYears + 4 ELSE 1)
    ELSE IF pc = "years" THEN inputs.projectionYears - i + 3
    ELSE IF pc = "discount" THEN 2
    ELSE IF pc = "irr" THEN 1
    ELSE 0

\* C10: solveIRR returns after at most 100 updates of the rate, and
\* buildFullDCFCashFlows returns after N year passes, one terminal-value step,
\* one discounting pass and one IRR solve, in that order; every step of a call
\* uses up the steps it has left, which are never fewer than none.
C10_BoundedIteration ==
    /\ [](irrUpdates <= 100)
    /\ [](StepsLeft >= 0)
    /\ [](Returned => steps = StepsOfRun(inputs.projectionYears))
    /\ [](pc \in {"years", "discount", "irr"} =>
             steps = SubSeq(StepsOfRun(inputs.projectionYears), 1, Len(steps)))
    /\ [][Running => StepsLeft' < StepsLeft]_vars

\* the solver gave up after the hundredth update
C10_Witness ==
    /\ irrPc = "returned"
    /\ irrUpdates = 100
    /\ IsNaN(irrReturn)

\* f(pct/100) for the series cfs: cfs[1] + cfs[2]/(1+pct/100) + ...
ResidualAt(cfs, pct) == Npv(cfs, Div(pct, R(100)))

\* |x| < 1e-6
WithinRoundTrip(x) == Lt(AbsNum(x), Norm(1, 1000000))

\* the series buildFullDCFCashFlows hands to solveIRR, from the state
SeriesOfRun == IrrCashFlowsOf(cashFlows, dcfValue)

\* a number that is not NaN came back as the rate of return
C11_RoundTrip ==
    /\ (Returned /\ ~IsNaN(result.internalRateOfReturn)) =>
           WithinRoundTrip(ResidualAt(
               IrrCashFlowsOf(result.projectedCashFlowsDCF, result.dcfValue),
               result.internalRateOfReturn))
    /\ (irrPc = "returned" /\ Len(irrCashFlows) > 0 /\ ~IsNaN(irrReturn)) =>
           WithinRoundTrip(ResidualAt(irrCashFlows, irrReturn))

\* C11, as stated: a rate of return that is a number puts the series within
\* 1e-6 of zero, and the discount rate is always a root of the series handed
\* to the solver.
C11_AsStated ==
    /\ C11_RoundTrip
    /\ (pc = "irr" \/ Returned) =>
           ResidualAt(SeriesOfRun, R(inputs.discountRatePercent)) = Zero
    /\ (call # Null /\ call.fn = "discount" /\ ret # Pending) =>
           ResidualAt(ret.irrCashFlowsLower, R(call.lower)) = Zero

\* C11, amended: a rate of return that is a number puts the series within
\* 1e-6 of zero, and the discount rate is a root of the series handed to the
\* solver whenever 1 + discountRate/100 is not zero (at -100 percent the
\* present value is infinite or NaN and the series has no value there).
C11_DiscountRateIsRoot ==
    /\ C11_RoundTrip
    /\ ((pc = "irr" \/ Returned) /\ inputs.discountRatePercent # -100) =>
           ResidualAt(SeriesOfRun, R(inputs.discountRatePercent)) = Zero
    /\ (call # Null /\ call.fn = "discount" /\ ret # Pending /\ call.lower # -100) =>
           ResidualAt(ret.irrCashFlowsLower, R(call.lower)) = Zero

\* a run whose present value is positive and finite gets its discount rate
\* back as the rate of return
C11_Witness ==
    /\ Returned
    /\ inputs.projectionYears >= 2
    /\ IsFinite(result.dcfValue)
    /\ Gt(result.dcfValue, Zero)
    /\ result.internalRateOfReturn = R(inputs.discountRatePercent)

\* projectSingleLeaseCashFlows, called on its own, has returned
LeaseProjected ==
    /\ call # Null
    /\ call.fn = "projectSingleLeaseCashFlows"
    /\ ret # Pending

\* projection year k lies fully inside the lease term
YearInsideTerm(lease, in, k) ==
    /\ DateLe(lease.leaseStartDate, AnalysisYearStartDate(in, k - 1))
    /\ DateLe(AnalysisYearEndDate(in, k - 1), lease.leaseEndDate)

\* the anniversaries of the lease start that have passed when projection
\* year k starts
AnniversariesElapsed(lease, in, k) ==
    LET s == AnalysisYearStartDate(in, k - 1)
        ls == lease.leaseStartDate
    IN  Cardinality({j \in 1..(s.y - ls.y + 1) : DateLe(SetFullYear(ls, ls.y + j), s)})

\* squareFeet x currentRentPerSF
BaseRent(lease) == Mul(R(lease.squareFeet), R(lease.currentRentPerSF))

DiscountPassed ==
    /\ call # Null
    /\ call.fn = "discount"
    /\ ret # Pending

\* C13, as stated: of two inputs that differ only in discountRatePercent, the
\* one with the larger discount rate has the strictly smaller dcfValue.
C13_AsStated == DiscountPassed => Lt(ret.higher, ret.lower)

\* C13, amended: of two inputs that differ only in discountRatePercent, both
\* rates above -100, the one with the larger discount rate has the strictly
\* smaller dcfValue when no year's netCashFlowWithTerminal is negative and at
\* least one is positive.
C13_MonotoneForPositiveFlows ==
    (/\ DiscountPassed
     /\ call.lower > -100
     /\ \A t \in 1..Len(call.flows) : ~Lt(call.flows[t], Zero)
     /\ \E t \in 1..Len(call.flows) : Gt(call.flows[t], Zero))
        => Lt(ret.higher, ret.lower)

\* a full horizon of positive flows, worth less at 25 percent than at 10
C13_Witness ==
    /\ DiscountPassed
    /\ Len(call.flows) = MaxYears
    /\ \A t \in 1..Len(call.flows) : Gt(call.flows[t], Zero)
    /\ call.lower = 10
    /\ call.higher = 25
    /\ Lt(ret.higher, ret.lower)
    /\ Gt(ret.higher, Zero)

\* year-1 NOI of the returned records
Year1NOI == result.projectedCashFlowsDCF[1].netOperatingIncome

\* C14, as stated: the going-in cap rate is zero when dcfValue is zero and
\* otherwise year-1 NOI divided by dcfValue.
C14_AsStated ==
    Returned =>
        result.goingInCapRate =
            IF result.dcfValue = Zero THEN Zero ELSE Div(Year1NOI, result.dcfValue)

\* C14, amended: the going-in cap rate is zero when dcfValue is zero and
\* otherwise year-1 NOI divided by dcfValue, times 100 (a percentage).
C14_PercentOfPresentValue ==
    Returned =>
        result.goingInCapRate =
            IF result.dcfValue = Zero THEN Zero
            ELSE Mul(Div(Year1NOI, result.dcfValue), R(100))

\* a positive year-1 NOI over a positive finite present value
C14_Witness ==
    /\ Returned
    /\ IsFinite(result.dcfValue)
    /\ Gt(result.dcfValue, Zero)
    /\ Gt(Year1NOI, Zero)
    /\ Gt(result.goingInCapRate, Zero)
    /\ result.goingInCapRate # Div(Year1NOI, result.dcfValue)

\* what a capital item adds to the record cf: nothing unless cf is the record
\* of the item's year, and then its amount resolved by its amount type
\* against that record
CapexContribution(ce, cf) ==
    IF ce.year # cf.year THEN Zero
    ELSE IF ce.amountType = "percentPGI" THEN Mul(cf.potentialGrossRevenue, ce.amount)
    ELSE IF ce.amountType = "percentEGI" THEN Mul(cf.effectiveGrossIncome, ce.amount)
    ELSE IF ce.amountType = "perSF" THEN Mul(R(inputs.rentableSF), ce.amount)
    ELSE ce.amount

\* C15: the capitalExpenditures of every record is the sum, over the capital
\* items, of what each item adds to that record: its amount resolved against
\* the record's own potentialGrossRevenue, effectiveGrossIncome or the
\* rentable area, or taken as is, if the record is the one of the item's
\* year, and nothing otherwise; an item whose year is outside 1..N adds
\* nothing to any record.
C15_CapexInDesignatedYear ==
    (pc \in {"years", "discount", "irr"} \/ Returned) =>
        /\ \A t \in 1..Len(cashFlows) :
               cashFlows[t].capitalExpenditures =
                   SumSeq([j \in 1..Len(inputs.capitalExpenditures) |->
                              CapexContribution(inputs.capitalExpenditures[j],
                                                cashFlows[t])])
        /\ \A j \in 1..Len(inputs.capitalExpenditures) :
               inputs.capitalExpenditures[j].year \notin 1..inputs.projectionYears =>
                   \A t \in 1..Len(cashFlows) :
                       CapexContribution(inputs.capitalExpenditures[j],
                                         cashFlows[t]) = Zero

\* a full horizon with every amount type: year 1 carries the fixed item alone
\* (not the item designated for year 0), year 2 a share of that year's EGI
\* plus the per-area item, year 3 a share of that year's PGI
C15_Witness ==
    /\ Returned
    /\ inputs.projectionYears = MaxYears
    /\ inputs.capitalExpenditures = CapexSome
    /\ inputs.rentableSF > 0
    /\ cashFlows[1].capitalExpenditures = R(1)
    /\ Neq(cashFlows[2].effectiveGrossIncome, Zero)
    /\ cashFlows[2].capitalExpenditures =
           Add(Mul(cashFlows[2].effectiveGrossIncome, Norm(1, 2)), R(inputs.rentableSF))
    /\ Neq(cashFlows[3].potentialGrossRevenue, Zero)
    /\ cashFlows[3].capitalExpenditures =
           Mul(cashFlows[3].potentialGrossRevenue, Norm(1, 4))

\* the lease is active in projection year k and has expired before projection
\* year k + 1 starts
EndsInsideYear(lease, in, k) ==
    /\ LeaseActiveInYear(lease, in, k - 1)
    /\ DateLt(lease.leaseEndDate, AnalysisYearStartDate(in, k))

\* the record carries what the renewal test leaves behind: renewal rent, TI
\* or LC, or the vacantAfterExpiry flag
RenewalTestShows(detail) ==
    \/ detail.isVacantAfterExpiry
    \/ Neq(detail.scheduledRent, Zero)
    \/ Neq(detail.tiCosts, Zero)
    \/ Neq(detail.lcCosts, Zero)

\* C16: when a lease ends inside projection year k < N, projection year k + 1
\* carries the renewal rent, TI and LC or the vacantAfterExpiry flag, and is
\* never an all-zero unflagged year.
C16_RenewalTestInFollowingYear ==
    LeaseProjected =>
        \A k \in 1..(Len(ret) - 1) :
            EndsInsideYear(call.lease, call.inputs, k) => RenewalTestShows(ret[k + 1])

\* the projection years in which the renewal test was applied to the lease:
\* the lease is not active and the record shows renewal rent, TI or LC, or
\* the vacantAfterExpiry flag
RenewalTestYears ==
    {k \in 1..Len(ret) :
        /\ ~LeaseActiveInYear(call.lease, call.inputs, k - 1)
        /\ RenewalTestShows(ret[k])}

\* C17: for every lease, effective date and lease end date, the renewal test
\* is applied in at most one projection year: renewal rent, TI and LC are
\* charged in at most one year, and the lease is flagged vacantAfterExpiry in
\* at most one year.
C17_RenewalTestAtMostOnce ==
    LeaseProjected =>
        /\ Cardinality(RenewalTestYears) <= 1
        /\ Cardinality({k \in 1..Len(ret) : ret[k].isVacantAfterExpiry}) <= 1

\* the year loop is under way or over: cashFlows holds the records so far
RecordsBuilt == pc \in {"years", "discount", "irr"} \/ Returned

\* the area of the leases flagged vacantAfterExpiry in projection year t
FlaggedArea(t) ==
    LET flagged == {l \in 1..Len(inputs.rentRoll) :
                       allLeaseProjections[l][t].isVacantAfterExpiry}
        RECURSIVE AreaOf(_)
        AreaOf(ls) ==
            IF ls = {} THEN 0
            ELSE LET l == CHOOSE x \in ls : TRUE
                 IN  inputs.rentRoll[l].squareFeet + AreaOf(ls \ {l})
    IN  AreaOf(flagged)

\* the area flagged in the projection years 1..t
RECURSIVE FlaggedThrough(_)
FlaggedThrough(t) == IF t <= 0 THEN 0 ELSE FlaggedThrough(t - 1) + FlaggedArea(t)

\* the area leased by the market-leasing step in the projection years 1..t
RECURSIVE LeasedThrough(_)
LeasedThrough(t) ==
    IF t <= 0 THEN 0 ELSE LeasedThrough(t - 1) + cashFlows[t].sfToLeaseThisYear

\* rentable area minus the total leased area of the roster
InitialVacancy ==
    inputs.rentableSF - SumLeasedSF(inputs.rentRoll)

\* C18: when market-leasing assumptions are configured, the pool at the start
\* of every projection year t is initial vacancy, plus the area flagged
\* non-renewed in the years before t, minus the area leased by the
\* market-leasing step in the years before t, floored at zero.
C18_PoolAtStartOfYear ==
    (RecordsBuilt /\ inputs.marketLeasingAssumptions # Null) =>
        \A t \in 1..Len(cashFlows) :
            cashFlows[t].totalVacantSFAtStartOfYear =
                LET pool == InitialVacancy + FlaggedThrough(t - 1) - LeasedThrough(t - 1)
                IN  IF pool < 0 THEN 0 ELSE pool

\* C19: when market-leasing assumptions are configured, initial vacancy is
\* leased in year 1 and the area of the leases flagged non-renewed in year k
\* is leased by year k + 1 at the latest: the step leases at least that area
\* in year k + 1.
C19_VacatedAreaLeasedNextYear ==
    (RecordsBuilt /\ inputs.marketLeasingAssumptions # Null) =>
        /\ Len(cashFlows) >= 1 =>
               cashFlows[1].sfToLeaseThisYear =
                   (IF InitialVacancy < 0 THEN 0 ELSE InitialVacancy)
        /\ \A k \in 1..(Len(cashFlows) - 1) :
               cashFlows[k + 1].sfToLeaseThisYear >= FlaggedArea(k)

BlankYear(detail) ==
    /\ detail.scheduledRent = Zero
    /\ detail.tiCosts = Zero
    /\ detail.lcCosts = Zero

\* what C21 says of the projection of one lease
RenewalOutcomes(lease, in, details) ==
    \A k \in 1..Len(details) :
        LET active == LeaseActiveInYear(lease, in, k - 1)
            tested == RenewalTestYear(lease, in, k - 1)
        IN  /\ (tested /\ lease.renewalProbabilityPercent >= 50) =>
                   /\ ~details[k].isVacantAfterExpiry
                   /\ details[k].tiCosts =
                          Mul(R(lease.squareFeet), R(lease.renewalTiPerSF))
            /\ (tested /\ lease.renewalProbabilityPercent < 50) =>
                   /\ details[k].isVacantAfterExpiry
                   /\ BlankYear(details[k])
            /\ (~active /\ ~tested) =>
                   /\ ~details[k].isVacantAfterExpiry
                   /\ BlankYear(details[k])
            /\ (Neq(details[k].tiCosts, Zero) \/ Neq(details[k].lcCosts, Zero)) =>
                   (tested /\ lease.renewalProbabilityPercent >= 50)

\* C21: in the year the renewal test is applied the lease renews exactly when
\* renewalProbabilityPercent >= 50; when it does not renew it is flagged
\* vacantAfterExpiry with zero rent, TI and LC; in a year in which it is
\* neither active nor tested every field is zero and the flag is false; TI and
\* LC are nonzero only in a year in which the lease renewed.
C21_RenewalOutcomes ==
    /\ LeaseProjected => RenewalOutcomes(call.lease, call.inputs, ret)
    /\ RecordsBuilt =>
           \A l \in 1..Len(inputs.rentRoll) :
               RenewalOutcomes(inputs.rentRoll[l], inputs, allLeaseProjections[l])

\* a lease with a probability of exactly 50 renews in the year after it ends,
\* with TI and LC, and is blank in the year after that
C21_Witness ==
    /\ LeaseProjected
    /\ call.lease.renewalProbabilityPercent = 50
    /\ call.inputs.effectiveDate = Date(2024, 1, 1)
    /\ call.lease.leaseEndDate = Date(2024, 12, 31)
    /\ RenewalTestYear(call.lease, call.inputs, 1)
    /\ Gt(ret[2].scheduledRent, Zero)
    /\ Gt(ret[2].tiCosts, Zero)
    /\ Gt(ret[2].lcCosts, Zero)
    /\ ~ret[2].isVacantAfterExpiry
    /\ BlankYear(ret[3])

\* the last projection year before year k in which the lease is active (0 if
\* there is none)
LastActiveYearBefore(lease, in, k) ==
    LET active == {j \in 1..(k - 1) : LeaseActiveInYear(lease, in, j - 1)}
    IN  IF active = {} THEN 0 ELSE CHOOSE j \in active : \A j2 \in active : j2 <= j

\* the renewal rent C22 describes for renewal year k, after a last active
\* year j: area x (bumped last scheduled rent per area, or the renewal market
\* rent per area) x growth^(k-1) x the downtime factor
RenewalRentAsStated(lease, in, details, k, j) ==
    LET lastEscalatedRent == Div(details[j].scheduledRent, R(lease.squareFeet))
        preInflation ==
            IF lease.renewRentBumpPercent # 0
            THEN Mul(lastEscalatedRent, OnePlusPct(lease.renewRentBumpPercent))
            ELSE R(lease.renewalMarketRentPerSF)
        inflated ==
            Mul(preInflation, Pow(OnePlusPct(in.globalMarketRentGrowthPercent), k - 1))
    IN  Mul(Mul(R(lease.squareFeet), inflated),
            Max0(Div(R(12 - lease.renewalDowntimeMonths), R(12))))

\* what C22 says of the projection of one lease
RenewalRentFollowsLastRent(lease, in, details) ==
    \A k \in 1..Len(details) :
        (/\ RenewalTestYear(lease, in, k - 1)
         /\ lease.renewalProbabilityPercent >= 50
         /\ LastActiveYearBefore(lease, in, k) > 0)
            => details[k].scheduledRent =
                   RenewalRentAsStated(lease, in, details, k,
                                       LastActiveYearBefore(lease, in, k))

\* C22: on renewal the rent per area before inflation is the rent per area of
\* the lease's last active projection year, under its own escalation
\* variant, times (1 + rentBumpPercent/100) when the bump is not zero, and
\* renewalMarketRentPerArea when it is zero; it is then inflated by the global
\* market-rent growth rate for the years from the effective date to the
\* renewal year.
C22_RenewalRent ==
    RecordsBuilt =>
        \A l \in 1..Len(inputs.rentRoll) :
            RenewalRentFollowsLastRent(inputs.rentRoll[l], inputs, allLeaseProjections[l])

\* C23: an active lease with FixedPercent(r) escalation pays
\* baseRent x (1+r)^yearsIntoLease for every rate r, positive, zero or
\* negative, yearsIntoLease being the anniversaries of the lease start that
\* have passed when the projection year starts.
C23_FixedPercentAnyRate ==
    (LeaseProjected /\ call.lease.escalationType = "fixedPercent") =>
        \A k \in 1..Len(ret) :
            LeaseActiveInYear(call.lease, call.inputs, k - 1) =>
                ret[k].scheduledRent =
                    Mul(BaseRent(call.lease),
                        Pow(OnePlusPct(call.lease.escalationPercent),
                            AnniversariesElapsed(call.lease, call.inputs, k)))

\* the 1-indexed lease-year number at the start of projection year k
LeaseYearNumber(lease, in, k) == AnniversariesElapsed(lease, in, k) + 1

\* the CPI rate and review frequency in force for the lease
CpiRateInForce(lease, in) ==
    IF lease.cpiEscalationRatePercent = {} THEN in.globalMarketRentGrowthPercent
    ELSE CHOOSE v \in lease.cpiEscalationRatePercent : TRUE

CpiFrequencyInForce(lease) ==
    IF lease.cpiReviewFrequencyYears = {} THEN 1
    ELSE CHOOSE v \in lease.cpiReviewFrequencyYears : TRUE

\* a CPI lease with a positive review frequency has been projected
CpiProjected ==
    /\ LeaseProjected
    /\ call.lease.escalationType = "cpi"
    /\ CpiFrequencyInForce(call.lease) > 0

\* projection years k and k + 1 are active and in consecutive lease years
ConsecutiveLeaseYears(k) ==
    /\ LeaseActiveInYear(call.lease, call.inputs, k - 1)
    /\ LeaseActiveInYear(call.lease, call.inputs, k)
    /\ LeaseYearNumber(call.lease, call.inputs, k + 1) =
           LeaseYearNumber(call.lease, call.inputs, k) + 1

\* C24, as stated: the rent of two consecutive lease years of a CPI lease
\* differs only when the later lease-year number is a multiple of freq.
C24_AsStated ==
    CpiProjected =>
        \A k \in 1..(Len(ret) - 1) :
            (ConsecutiveLeaseYears(k) /\ ret[k + 1].scheduledRent # ret[k].scheduledRent)
                => LeaseYearNumber(call.lease, call.inputs, k + 1)
                       % CpiFrequencyInForce(call.lease) = 0

\* C24, amended: the rent of a CPI lease with freq > 0 is
\* baseRent x (1+rate)^(freq x c), c the review cycles completed before the
\* current lease year; the rent of two consecutive lease years differs only
\* when the later lease-year number is one more than a multiple of freq, and
\* then by the factor (1+rate)^freq; the rate is the lease's own or, when it
\* has none, the global market-rent growth rate.
C24_ReviewAfterFullCycle ==
    CpiProjected =>
        LET f == CpiFrequencyInForce(call.lease)
            growth == OnePlusPct(CpiRateInForce(call.lease, call.inputs))
            n(k) == LeaseYearNumber(call.lease, call.inputs, k)
            cycles(k) == Cardinality({c \in 1..n(k) : c * f <= n(k) - 1})
        IN  /\ \A k \in 1..Len(ret) :
                   LeaseActiveInYear(call.lease, call.inputs, k - 1) =>
                       ret[k].scheduledRent =
                           Mul(BaseRent(call.lease), Pow(growth, f * cycles(k)))
            /\ \A k \in 1..(Len(ret) - 1) :
                   ConsecutiveLeaseYears(k) =>
                       ret[k + 1].scheduledRent =
                           IF (n(k + 1) - 1) % f = 0
                           THEN Mul(ret[k].scheduledRent, Pow(growth, f))
                           ELSE ret[k].scheduledRent

\* a CPI lease reviewed every two years at 50 percent, in its lease years 2,
\* 3 and 4: flat in year 2, 2.25 times the base rent from year 3 on
C24_Witness ==
    /\ CpiProjected
    /\ call.lease.cpiReviewFrequencyYears = {2}
    /\ call.lease.cpiEscalationRatePercent = {50}
    /\ LeaseYearNumber(call.lease, call.inputs, 1) = 2
    /\ ret[1].scheduledRent = BaseRent(call.lease)
    /\ ret[2].scheduledRent = Mul(BaseRent(call.lease), Norm(9, 4))
    /\ ret[3].scheduledRent = ret[2].scheduledRent

\* the rent per area a step-up schedule gives in lease year n: that of the
\* entry with the greatest yearInLeaseTerm <= n, the base rent per area when
\* there is none
StepRentPerArea(lease, n) ==
    LET qualifying == {j \in 1..Len(lease.stepUpSchedule) :
                          lease.stepUpSchedule[j].yearInLeaseTerm <= n}
    IN  IF qualifying = {} THEN lease.currentRentPerSF
        ELSE LET top == CHOOSE j \in qualifying :
                            \A j2 \in qualifying :
                                lease.stepUpSchedule[j2].yearInLeaseTerm
                                    <= lease.stepUpSchedule[j].yearInLeaseTerm
             IN  lease.stepUpSchedule[top].rentPerSF

\* a step-up lease with a schedule has been projected
StepUpProjected ==
    /\ LeaseProjected
    /\ call.lease.escalationType = "stepUp"
    /\ Len(call.lease.stepUpSchedule) > 0

\* C25: an active step-up lease with a non-empty schedule, in any order, pays
\* area x the rent per area of the schedule entry with the greatest
\* year-in-term <= the current lease-year number, and area x the base rent
\* per area when no entry qualifies.
C25_StepUpRent ==
    StepUpProjected =>
        \A k \in 1..Len(ret) :
            LeaseActiveInYear(call.lease, call.inputs, k - 1) =>
                ret[k].scheduledRent =
                    Mul(R(call.lease.squareFeet),
                        R(StepRentPerArea(call.lease,
                                          LeaseYearNumber(call.lease, call.inputs, k))))

\* a schedule given latest entry first: no entry qualifies in lease year 1,
\* and the entry for year 2, second in the list, is used in lease year 2
C25_Witness ==
    /\ StepUpProjected
    /\ call.lease.stepUpSchedule[1].yearInLeaseTerm = 3
    /\ call.lease.stepUpSchedule[2].yearInLeaseTerm = 2
    /\ LeaseYearNumber(call.lease, call.inputs, 1) = 1
    /\ LeaseYearNumber(call.lease, call.inputs, 3) = 2
    /\ ret[1].scheduledRent = BaseRent(call.lease)
    /\ ret[3].scheduledRent =
           Mul(R(call.lease.squareFeet), R(call.lease.stepUpSchedule[2].rentPerSF))
    /\ ret[3].scheduledRent # ret[1].scheduledRent

\* the escalation configuration of the lease is unsupported or missing, and
\* the rent falls back to the flat base rent
FallsBackToBaseRent(lease) ==
    \/ lease.escalationType = "stepUp" /\ Len(lease.stepUpSchedule) = 0
    \/ lease.escalationType = "cpi" /\ CpiFrequencyInForce(lease) <= 0

\* C26: whenever the rent of an active lease falls back to the flat base rent
\* because its escalation configuration is unsupported or missing (step-up
\* without a schedule, CPI with a non-positive review frequency), a warning
\* is emitted in that year.
C26_FallbackFlagged ==
    LeaseProjected =>
        \A k \in 1..Len(ret) :
            (/\ LeaseActiveInYear(call.lease, call.inputs, k - 1)
             /\ FallsBackToBaseRent(call.lease))
                => /\ ret[k].scheduledRent = BaseRent(call.lease)
                   /\ ret[k].warned

\* the recoverable pool of projection year t: the inflated non-management
\* buckets that are recoverable
RecoverablePool(t) ==
    SumSeq([k \in 1..Len(ExpenseKeys) |->
               LET item == inputs.operatingExpensesBuckets[ExpenseKeys[k]]
               IN  IF IsRecoverable(ExpenseKeys[k], item)
                   THEN InflatedAmount(item, t - 1, inputs.globalExpenseInflationPercent)
                   ELSE Zero])

\* the reimbursement C27 gives lease l in projection year t
ReimbursementAsStated(l, t) ==
    LET lease == inputs.rentRoll[l]
        prorated ==
            IF inputs.rentableSF > 0
            THEN Div(Mul(RecoverablePool(t), R(lease.squareFeet)), R(inputs.rentableSF))
            ELSE Zero
        stop == IF lease.expenseStopAmountPerSF = {} THEN 0
                ELSE CHOOSE v \in lease.expenseStopAmountPerSF : TRUE
        adminFee == IF lease.adminFeeOnOpExPercent = {} THEN 0
                    ELSE CHOOSE v \in lease.adminFeeOnOpExPercent : TRUE
        beforeFee ==
            IF lease.reimbursementType = "nnn" THEN prorated
            ELSE IF lease.reimbursementType = "modifiedGross" /\ stop > 0
            THEN Max0(Sub(prorated, R(stop * lease.squareFeet)))
            ELSE Zero
    IN  IF adminFee > 0 THEN Add(beforeFee, Mul(beforeFee, Norm(adminFee, 100)))
        ELSE beforeFee

\* C27: every lease's reimbursement is its share of the year's recoverable
\* pool (management fee not included): the prorated pool for NNN, the
\* prorated pool less the expense stop and not below zero for modified gross
\* with a positive stop, each with the admin fee on top when one is
\* configured, and zero for modified gross without a stop and for gross (and
\* for every lease when the rentable area is zero); it is never negative, and
\* tenantReimbursementsNNN is the sum over the leases.
C27_Reimbursements ==
    RecordsBuilt =>
        \A t \in 1..Len(cashFlows) :
            /\ cashFlows[t].recoverableOpexTotal = RecoverablePool(t)
            /\ \A l \in 1..Len(inputs.rentRoll) :
                   /\ cashFlows[t].leaseReimbursementAmount[l] = ReimbursementAsStated(l, t)
                   /\ ~Lt(cashFlows[t].leaseReimbursementAmount[l], Zero)
            /\ cashFlows[t].tenantReimbursementsNNN =
                   SumSeq([l \in 1..Len(inputs.rentRoll) |-> ReimbursementAsStated(l, t)])

\* an NNN lease with an admin fee next to a modified-gross lease whose share
\* exceeds its expense stop: both reimburse, and the year's total is theirs
C27_Witness ==
    /\ Returned
    /\ inputs.rentableSF > 0
    /\ Len(inputs.rentRoll) = 2
    /\ inputs.rentRoll[1].reimbursementType = "nnn"
    /\ inputs.rentRoll[1].adminFeeOnOpExPercent = {50}
    /\ inputs.rentRoll[2].reimbursementType = "modifiedGross"
    /\ inputs.rentRoll[2].expenseStopAmountPerSF = {1}
    /\ Gt(RecoverablePool(1), Zero)
    /\ cashFlows[1].leaseReimbursementAmount[1] =
           Mul(Div(Mul(RecoverablePool(1), R(2)), R(inputs.rentableSF)), Norm(3, 2))
    /\ Gt(cashFlows[1].leaseReimbursementAmount[2], Zero)
    /\ cashFlows[1].tenantReimbursementsNNN =
           Add(cashFlows[1].leaseReimbursementAmount[1],
               cashFlows[1].leaseReimbursementAmount[2])

\* the inflated non-management buckets of projection year t, recoverable or not
NonManagementBuckets(t) ==
    SumSeq([k \in 1..Len(ExpenseKeys) |->
               InflatedAmount(inputs.operatingExpensesBuckets[ExpenseKeys[k]],
                              t - 1, inputs.globalExpenseInflationPercent)])

\* the management fee percentage of projection year t: the configured
\* percentage, inflated when the item has an inflation rate
FeePercent(t) ==
    LET item == inputs.operatingExpensesBuckets.managementPercentOfEGI
    IN  IF item.inflationRate = {} THEN R(item.amount)
        ELSE Mul(R(item.amount),
                 Pow(OnePlusPct(CHOOSE v \in item.inflationRate : TRUE), t - 1))

\* C28: in every record operatingExpenses is the sum of the inflated
\* non-management buckets plus feePercent x final effectiveGrossIncome / 100;
\* the provisional fee on the rental-only EGI is neither left in nor counted
\* twice.
C28_FeeOnFinalEGI ==
    RecordsBuilt =>
        \A t \in 1..Len(cashFlows) :
            cashFlows[t].operatingExpenses =
                Add(NonManagementBuckets(t),
                    Div(Mul(FeePercent(t), cashFlows[t].effectiveGrossIncome), R(100)))

\* a year whose final EGI exceeds its rental-only EGI by reimbursements and
\* other income, under a fee that has doubled to 50 percent in year 2
C28_Witness ==
    /\ Returned
    /\ Len(cashFlows) >= 2
    /\ inputs.operatingExpensesBuckets = OpexSome
    /\ Gt(cashFlows[2].tenantReimbursementsNNN, Zero)
    /\ Gt(cashFlows[2].currentYearOtherIncome, Zero)
    /\ Gt(cashFlows[2].effectiveGrossRentalIncome, Zero)
    /\ Gt(cashFlows[2].effectiveGrossIncome, cashFlows[2].effectiveGrossRentalIncome)
    /\ cashFlows[2].operatingExpenses =
           Add(NonManagementBuckets(2), Div(cashFlows[2].effectiveGrossIncome, R(2)))

\* scheduled rent plus market rent of the vacant pool in projection year t
RentalIncome(t) ==
    Add(cashFlows[t].totalScheduledRentalRevenue,
        cashFlows[t].potentialMarketRentFromVacancy)

\* C29: in every record generalVacancyLoss = (scheduled rent + market rent)
\* x vacancy% and creditLoss = (scheduled rent + market rent -
\* generalVacancyLoss) x creditLoss%, whatever the reimbursements and the other
\* income are, and these two are added in full to potentialGrossRevenue and to
\* effectiveGrossIncome.
C29_LossesOnRentalIncomeOnly ==
    RecordsBuilt =>
        \A t \in 1..Len(cashFlows) :
            LET cf == cashFlows[t]
                other == CurrentYearOtherIncome(inputs, t - 1)
            IN  /\ cf.generalVacancyLoss =
                       Div(Mul(RentalIncome(t),
                               R(inputs.generalVacancyRatePercentForProjections)), R(100))
                /\ cf.creditLoss =
                       Div(Mul(Sub(RentalIncome(t), cf.generalVacancyLoss),
                               R(inputs.creditCollectionLossPercent)), R(100))
                /\ cf.potentialGrossRevenue =
                       Add(RentalIncome(t), Add(cf.tenantReimbursementsNNN, other))
                /\ cf.effectiveGrossIncome =
                       Add(Sub(Sub(RentalIncome(t), cf.generalVacancyLoss), cf.creditLoss),
                           Add(cf.tenantReimbursementsNNN, other))

\* a year with rent, reimbursements and other income in which both losses are
\* charged at a positive rate
C29_Witness ==
    /\ Returned
    /\ Len(cashFlows) >= 1
    /\ inputs.generalVacancyRatePercentForProjections > 0
    /\ inputs.creditCollectionLossPercent > 0
    /\ Gt(RentalIncome(1), Zero)
    /\ Gt(cashFlows[1].tenantReimbursementsNNN, Zero)
    /\ Gt(CurrentYearOtherIncome(inputs, 0), Zero)
    /\ Gt(cashFlows[1].creditLoss, Zero)
    /\ Lt(Add(cashFlows[1].generalVacancyLoss, cashFlows[1].creditLoss), RentalIncome(1))

\* C30: a run of buildFullDCFCashFlows leaves the input it was given as it
\* was (rent roll with the order of every step-up schedule, capital items,
\* expense buckets, other income, global assumptions); the records and the
\* vacancy-pool counters it writes to are created by that run, so a second run
\* starts from empty ones and leaves the result of the first alone.
C30_InputsUnchanged ==
    [][/\ inputs' = inputs
       /\ (pc = "idle" /\ pc' = "years") =>
              /\ cashFlows' = <<>>
              /\ cumulativeVacantSFFromPriorYearNonRenewals' = 0
              /\ sfLeasedInPriorYearsAndStillActive' = 0
       /\ (run = 2 /\ run' = 2) => prevResult' = prevResult]_vars

\* a second run has returned on an input whose rent roll holds a step-up
\* schedule out of order, with capital items, and whose first run returned
\* records
C30_Witness ==
    /\ Returned
    /\ run = 2
    /\ result # Null
    /\ prevResult # Null
    /\ Len(prevResult.projectedCashFlowsDCF) >= 2
    /\ inputs.capitalExpenditures # <<>>
    /\ \E l \in 1..Len(inputs.rentRoll) :
           /\ inputs.rentRoll[l].escalationType = "stepUp"
           /\ SortSchedule(inputs.rentRoll[l].stepUpSchedule)
                  # inputs.rentRoll[l].stepUpSchedule

=============================================================================
